---- MODULE Spec2Model ----
(***************************************************************************)
(* Verification model of the migration orchestrators of peritolegado.     *)
(*                                                                         *)
(*  Part I  : IntelligentMigrationEngine (src/src/core/                    *)
(*            intelligent-migration.ts), specifications Spec, SpecRerun,   *)
(*            SpecRerunLive and SpecWeb.                                   *)
(*  Part II : MigrationEngine (src/dev.bat, core/migration-engine.ts),     *)
(*            specifications SpecME and SpecMELive.                        *)
(*  Part III: IntelligentMappingEngine (src/src/core/                      *)
(*            intelligent-mapping.ts), specifications SpecSim, SpecType,   *)
(*            SpecMap and SpecRepo.                                        *)
(*  Part IV : DataConverter (src/unnamed/part_002), specification          *)
(*            SpecConv.                                                    *)
(*                                                                         *)
(* Both engines are async/await code on a single-threaded event loop.  A   *)
(* program counter names the await a run is suspended at; an action is the *)
(* resumption of that await followed by the synchronous code up to the     *)
(* next await.  Loop heads are separate "synchronous" program counters:    *)
(* while some run is at one of them no other run and no external caller    *)
(* (stop(), startMigration()) can take a step.                             *)
(***************************************************************************)
EXTENDS Integers, Sequences, FiniteSets, TLC

\* ---------------------------------------------------------------- bounds
MaxTables    == 2   \* Spec: tables in the (filtered) source schema
MaxBatches   == 2   \* Spec: batches the stream of a table yields
RerunBatches == 1   \* SpecRerun: batches the stream of a table yields
MaxRetryOpt  == 2   \* largest value of options.maxRetries explored
MaxBatchLen  == 2   \* Spec: rows in a batch

METables     == 3   \* SpecME: tables of the source schema that are migrated
MERows       == 3   \* SpecME: rows a source stream delivers
MEBatch      == 2   \* SpecME: largest config.batchSize explored
MEParallel   == 2   \* SpecME: largest config.parallelTables explored

MaxStrLen    == 3   \* SpecSim: length of the strings compared
MaxCols      == 2   \* SpecSim: columns of the tables compared
MaxSchemaTables == 2 \* SpecMap: tables of a schema
MaxNumLen    == 3   \* SpecConv: length of the texts converted to numbers
MaxOps       == 3   \* SpecRepo: operations that change the repository

\* invocations of startMigration() that are accepted: a run, and the call
\* that follows it or overlaps its cleanup
Runs == {1, 2}

\* rows getRecordCount() reports for a table
RowsOf(t) == t

VARIABLES
  options,     \* this.options (fixed by the constructor)
  isRunning,   \* this.isRunning
  shouldStop,  \* this.shouldStop
  progress,    \* this.progress
  statistics,  \* this.statistics
  run,         \* per startMigration() invocation: pc and locals
  gh,          \* per invocation: history of what it did (observation only)
  lim,         \* size of the explored scenario: runs, tables, batches
  lastCall,    \* the call made in the latest step (NoCall when it made none)
  me,          \* state of the MigrationEngine model (Part II)
  mapper,      \* state of the IntelligentMappingEngine model (Part III)
  conv         \* a call of DataConverter.convert (Part IV)

imeVars == <<options, isRunning, shouldStop, progress, statistics, run, gh,
             lim, lastCall>>
vars == <<options, isRunning, shouldStop, progress, statistics, run, gh,
          lim, lastCall, me, mapper, conv>>

\* ------------------------------------------------------------------------
\* Part I : IntelligentMigrationEngine
\* ------------------------------------------------------------------------

Phases == <<"connecting", "analyzing", "creating", "migrating", "indexing",
            "validating", "complete", "error">>

RECURSIVE RankFrom(_, _)
RankFrom(p, i) == IF i > Len(Phases) THEN 0
                  ELSE IF Phases[i] = p THEN i ELSE RankFrom(p, i + 1)
Rank(p) == RankFrom(p, 1)

\* program counters at which the run executes synchronous code
SyncPcs == {"createLoop", "migrateLoop", "indexLoop", "validateLoop",
            "complete", "catch"}

Quiescent == \A q \in Runs : run[q].pc \notin SyncPcs

initializeProgress ==
  [phase |-> "connecting", currentTable |-> 0, tablesCompleted |-> 0,
   totalTables |-> 0, recordsProcessed |-> 0, totalRecords |-> 0,
   errors |-> <<>>, warnings |-> 0]

initializeStatistics ==
  [totalTables |-> 0, tablesProcessed |-> 0, totalRecords |-> 0,
   recordsProcessed |-> 0, errors |-> 0, warnings |-> 0,
   problematicTables |-> <<>>]

InitRun == [pc |-> "idle", n |-> 0, tbl |-> 0, att |-> 0, bat |-> 0,
            blen |-> 0, result |-> "none"]

InitGh == [hist |-> <<>>, stopCalled |-> FALSE, failed |-> FALSE,
           tableFails |-> 0, otherFail |-> FALSE, aborted |-> FALSE,
           created |-> {}, streamed |-> {}, disc |-> {},
           tries |-> 0, sleeps |-> 0,
           events |-> {}, retStats |-> FALSE, connFailed |-> "none"]

NoCall == [run |-> 0, op |-> "none", table |-> 0, fresh |-> FALSE]



\* ------------------------------------------------------------------------
\* Part II : MigrationEngine (one job), state
\* ------------------------------------------------------------------------
METableSet == 1..METables

MENoCall == [op |-> "none", table |-> 0]

\* the job before startMigration(config) is called; cfg is the config and
\* the source the job will run against
MEIdle(cfg) ==
  [cfg      |-> cfg,
   pc       |-> "idle",               \* await the job's main flow is at
   status   |-> "none",               \* MigrationStatus.status
   step     |-> 0,                    \* index within the connect or count steps
   chunk    |-> 0,                    \* index of the chunk being migrated
   task     |-> [t \in METableSet |-> "none"],   \* await of migrateTable(t)
   flowing  |-> [t \in METableSet |-> FALSE],    \* 'data' listener attached
   delivered|-> [t \in METableSet |-> 0],        \* rows the stream emitted
   batch    |-> [t \in METableSet |-> <<>>],     \* the closure variable batch
   pending  |-> [t \in METableSet |-> 0],        \* handlers awaiting insertRows
   inTable  |-> [t \in METableSet |-> 0],        \* processedInTable
   inserts  |-> [t \in METableSet |-> <<>>],     \* insertRows calls, in order
   creates  |-> [t \in METableSet |-> 0],        \* createTable calls
   totalRows     |-> 0,               \* status.progress.totalRows
   processedRows |-> 0,               \* status.progress.processedRows
   errorCount    |-> 0,               \* status.progress.errorCount
   nErrors       |-> 0,               \* status.errors.length
   currentTable  |-> 0,               \* status.progress.currentTable
   failing  |-> FALSE,                \* the finally block runs for a throw
   failedAt |-> "none",               \* the awaited call whose rejection it was
   disc     |-> {},                   \* disconnect() calls issued
   ev       |-> [started |-> 0, completed |-> 0, failed |-> 0, stopped |-> 0,
                 migrationProgress |-> 0, progress |-> 0],
   tableStarted   |-> [t \in METableSet |-> 0],  \* table:started events
   tableCompleted |-> [t \in METableSet |-> <<>>], \* table:completed rowCounts
   tableFailed    |-> [t \in METableSet |-> 0],  \* table:failed events
   call     |-> MENoCall]             \* adapter call issued in the latest step

\* the jobs explored: one table whose stream delivers many rows; many
\* tables whose streams deliver at most one row each; and parallel jobs
\* whose config.mapping.tables sends both of two source tables to one
\* target table (merge)
MEManyRows ==
  [dryRun : BOOLEAN, batchSize : 1..MEBatch, parallelTables : {1},
   n : {1}, rows : 0..MERows, merge : {FALSE}]
MEManyTables ==
  [dryRun : BOOLEAN, batchSize : {1}, parallelTables : {1, MEParallel},
   n : 0..METables, rows : {0, 1}, merge : {FALSE}]
MEMerged ==
  [dryRun : {FALSE}, batchSize : {1}, parallelTables : {MEParallel},
   n : {2}, rows : {1}, merge : {TRUE}]
MEConfigs == MEManyRows \cup MEManyTables \cup MEMerged

\* the MigrationEngine is not part of the scenarios of Part I
MEInit == MEIdle([dryRun |-> FALSE, batchSize |-> 1, parallelTables |-> 1,
                  n |-> 0, rows |-> 0, merge |-> FALSE])

\* ------------------------------------------------------------------------
\* Part III : IntelligentMappingEngine, values and pure functions
\* ------------------------------------------------------------------------

\* JavaScript numbers that the engine computes are quotients of integers:
\* [n, d] is n/d with d > 0, and d = 0 is what a division by zero yields
\* (NaN for 0/0).  Rounding of the floating-point operations is not modelled.
RECURSIVE GCD(_, _)
GCD(a, b) == IF b = 0 THEN a ELSE GCD(b, a % b)
\* quotients are kept in lowest terms
Q(n, d) ==
  IF d = 0 THEN [n |-> IF n = 0 THEN 0 ELSE 1, d |-> 0]
  ELSE [n |-> n \div GCD(n, d), d |-> d \div GCD(n, d)]
QAdd(x, y) == Q(x.n * y.d + y.n * x.d, x.d * y.d)
QMul(x, y) == Q(x.n * y.n, x.d * y.d)
QDiv(x, y) == Q(x.n * y.d, x.d * y.n)
IsNaN(x) == x.d = 0 /\ x.n = 0
\* comparisons, false when an operand is NaN
QGt(x, y) == x.d > 0 /\ y.d > 0 /\ x.n * y.d > y.n * x.d
QGe(x, y) == x.d > 0 /\ y.d > 0 /\ x.n * y.d >= y.n * x.d
QEq(x, y) == x.d > 0 /\ y.d > 0 /\ x.n * y.d = y.n * x.d
\* Math.max(x, y) of two numbers that are not NaN
QMax(x, y) == IF QGt(y, x) THEN y ELSE x
MathMin(a, b) == IF a < b THEN a ELSE b
MathMax(a, b) == IF a > b THEN a ELSE b

\* a string is the sequence of its characters
Uppers ==
  <<"A", "B", "C", "D", "E", "F", "G", "H", "I", "J", "K", "L", "M",
  "N", "O", "P", "Q", "R", "S", "T", "U", "V", "W", "X", "Y", "Z">>
Lowers ==
  <<"a", "b", "c", "d", "e", "f", "g", "h", "i", "j", "k", "l", "m",
  "n", "o", "p", "q", "r", "s", "t", "u", "v", "w", "x", "y", "z">>
LowerOf == [c \in {Uppers[i] : i \in DOMAIN Uppers} |->
              Lowers[CHOOSE i \in DOMAIN Uppers : Uppers[i] = c]]
UpperOf == [c \in {Lowers[i] : i \in DOMAIN Lowers} |->
              Uppers[CHOOSE i \in DOMAIN Lowers : Lowers[i] = c]]
CharLower(c) == IF c \in DOMAIN LowerOf THEN LowerOf[c] ELSE c
CharUpper(c) == IF c \in DOMAIN UpperOf THEN UpperOf[c] ELSE c
toLowerCase(s) == [i \in DOMAIN s |-> CharLower(s[i])]
toUpperCase(s) == [i \in DOMAIN s |-> CharUpper(s[i])]
IsSpace(c) == c = " "
RECURSIVE trimStart(_)
trimStart(s) == IF s # <<>> /\ IsSpace(Head(s)) THEN trimStart(Tail(s)) ELSE s
RECURSIVE trimEnd(_)
trimEnd(s) ==
  IF s # <<>> /\ IsSpace(s[Len(s)])
  THEN trimEnd(SubSeq(s, 1, Len(s) - 1)) ELSE s
trim(s) == trimEnd(trimStart(s))
\* s.includes(sub)
includes(s, sub) ==
  \E k \in 0..(Len(s) - Len(sub)) : SubSeq(s, k + 1, k + Len(sub)) = sub

\* s1.includes(s2) || s2.includes(s1) (line 323)
FirstIncludes(s1, s2) == includes(s1, s2)
EitherIncludes(s1, s2) == includes(s1, s2) \/ includes(s2, s1)

\* the Levenshtein matrix of calculateStringSimilarity, row by row:
\* LevRow extends row j (acc holds matrix[j][0..i-1]) from row j-1 (prev)
RECURSIVE LevRow(_, _, _, _, _)
LevRow(s1, s2, j, prev, acc) ==
  LET i == Len(acc)
  IN IF i > Len(s1) THEN acc
     ELSE LET substitutionCost == IF s1[i] = s2[j] THEN 0 ELSE 1
              cell == MathMin(MathMin(acc[i] + 1, prev[i + 1] + 1),
                              prev[i] + substitutionCost)
          IN LevRow(s1, s2, j, prev, Append(acc, cell))
RECURSIVE LevRows(_, _, _, _)
LevRows(s1, s2, j, prev) ==
  IF j > Len(s2) THEN prev
  ELSE LevRows(s1, s2, j + 1, LevRow(s1, s2, j, prev, <<j>>))
\* matrix[s2.length][s1.length]
Levenshtein(s1, s2) ==
  LevRows(s1, s2, 1, [i \in 1..(Len(s1) + 1) |-> i - 1])[Len(s1) + 1]

\* calculateStringSimilarity(str1, str2)
calculateStringSimilarity(str1, str2) ==
  LET s1 == trim(toLowerCase(str1))
      s2 == trim(toLowerCase(str2))
      maxLength == MathMax(Len(s1), Len(s2))
  IN IF s1 = s2 THEN Q(1, 1)
     ELSE IF Len(s1) = 0 \/ Len(s2) = 0 THEN Q(0, 1)
     ELSE IF EitherIncludes(s1, s2) THEN Q(8, 10)
     ELSE Q(maxLength - Levenshtein(s1, s2), maxLength)

typeGroups ==
  <<<<<<"V", "A", "R", "C", "H", "A", "R">>,
      <<"C", "H", "A", "R">>,
      <<"T", "E", "X", "T">>,
      <<"S", "T", "R", "I", "N", "G">>>>,
    <<<<"I", "N", "T", "E", "G", "E", "R">>,
      <<"I", "N", "T">>,
      <<"S", "M", "A", "L", "L", "I", "N", "T">>,
      <<"B", "I", "G", "I", "N", "T">>,
      <<"N", "U", "M", "B", "E", "R">>>>,
    <<<<"D", "E", "C", "I", "M", "A", "L">>,
      <<"N", "U", "M", "E", "R", "I", "C">>,
      <<"F", "L", "O", "A", "T">>,
      <<"D", "O", "U", "B", "L", "E">>,
      <<"R", "E", "A", "L">>>>,
    <<<<"D", "A", "T", "E">>,
      <<"D", "A", "T", "E", "T", "I", "M", "E">>,
      <<"T", "I", "M", "E", "S", "T", "A", "M", "P">>>>,
    <<<<"B", "O", "O", "L", "E", "A", "N">>,
      <<"B", "I", "T">>,
      <<"L", "O", "G", "I", "C", "A", "L">>>>,
    <<<<"B", "L", "O", "B">>,
      <<"B", "I", "N", "A", "R", "Y">>,
      <<"V", "A", "R", "B", "I", "N", "A", "R", "Y">>>>>>

\* calculateTypeSimilarity(type1, type2)
calculateTypeSimilarity(type1, type2) ==
  LET t1 == toUpperCase(type1)
      t2 == toUpperCase(type2)
  IN IF t1 = t2 THEN Q(1, 1)
     ELSE IF \E g \in DOMAIN typeGroups :
               /\ \E k \in DOMAIN typeGroups[g] : typeGroups[g][k] = t1
               /\ \E k \in DOMAIN typeGroups[g] : typeGroups[g][k] = t2
     THEN Q(8, 10)
     ELSE Q(0, 1)

\* (nameSim * 0.7) + (typeSim * 0.3) of a source and a target column
ColumnPairSimilarity(sourceCol, targetCol) ==
  QAdd(QMul(calculateStringSimilarity(sourceCol.name, targetCol.name),
            Q(7, 10)),
       QMul(calculateTypeSimilarity(sourceCol.type, targetCol.type),
            Q(3, 10)))

\* calculateColumnStructureSimilarity: the inner loop, Math.max from 0
RECURSIVE BestColumnSimilarity(_, _, _, _)
BestColumnSimilarity(sourceCol, targetColumns, k, bestMatch) ==
  IF k > Len(targetColumns) THEN bestMatch
  ELSE BestColumnSimilarity(sourceCol, targetColumns, k + 1,
         QMax(bestMatch, ColumnPairSimilarity(sourceCol, targetColumns[k])))

RECURSIVE MatchingColumns(_, _, _)
MatchingColumns(sourceColumns, targetColumns, k) ==
  IF k > Len(sourceColumns) THEN Q(0, 1)
  ELSE QAdd(BestColumnSimilarity(sourceColumns[k], targetColumns, 1, Q(0, 1)),
            MatchingColumns(sourceColumns, targetColumns, k + 1))

calculateColumnStructureSimilarity(sourceColumns, targetColumns) ==
  LET totalWeight == Len(sourceColumns)
  IN IF totalWeight > 0
     THEN QDiv(MatchingColumns(sourceColumns, targetColumns, 1),
               Q(totalWeight, 1))
     ELSE Q(0, 1)

\* calculateTableSimilarity(source, target); factors is 0.4 + 0.2 + 0.4
calculateTableSimilarity(source, target) ==
  LET nameSimilarity == calculateStringSimilarity(source.name, target.name)
      columnCountRatio ==
        QDiv(Q(MathMin(Len(source.columns), Len(target.columns)), 1),
             Q(MathMax(Len(source.columns), Len(target.columns)), 1))
      columnSimilarity ==
        calculateColumnStructureSimilarity(source.columns, target.columns)
      similarity ==
        QAdd(QAdd(QMul(nameSimilarity, Q(4, 10)),
                  QMul(columnCountRatio, Q(2, 10))),
             QMul(columnSimilarity, Q(4, 10)))
      factors == QAdd(QAdd(Q(4, 10), Q(2, 10)), Q(4, 10))
  IN QDiv(similarity, factors)

\* ------------------------------------------------------------------------
\* Part III : IntelligentMappingEngine, state
\* ------------------------------------------------------------------------

\* an engine as the constructor leaves it (lines 149-163)
MapperIdle(config, source, target) ==
  [config        |-> config,        \* this.config
   sourceSchema  |-> <<>>,          \* this.sourceSchema
   targetSchema  |-> <<>>,          \* this.targetSchema
   tableMappings |-> {},            \* this.tableMappings, one entry per id
   suggestions   |-> <<>>,          \* this.suggestions
   source        |-> source,        \* what sourceAdapter.getSchema() returned
   target        |-> target,        \* what targetAdapter.getSchema() returned
   pc            |-> "idle",        \* position of analyzeSchemas()
   i             |-> 0,             \* index of generateTableSuggestions' loop
   input         |-> <<>>,          \* arguments of a function under study
   output        |-> <<>>]          \* and what it returned

\* the default configuration (lines 152-160)
MapperDefaults == [similarityThreshold |-> Q(7, 10), autoMapTables |-> TRUE]

\* the mapping engine is not part of the scenarios of Parts I and II
MapperInit == MapperIdle(MapperDefaults, <<>>, <<>>)

\* ------------------------------------------------------------------------
\* Part IV : DataConverter, the state of a call of convert
\* ------------------------------------------------------------------------

\* JavaScript values: null, undefined, strings and numbers
Null == [t |-> "null"]
Undefined == [t |-> "undefined"]
Str(s) == [t |-> "string", s |-> s]
Num(q) == [t |-> "number", n |-> q]

\* a call convert(value, sourceType, targetType) that has not been made; tz
\* is the offset of the process's local time from UTC in hours, result is
\* the ConversionResult returned or the exception thrown
ConvCall(value, sourceType, targetType, tz) ==
  [pc |-> "idle", value |-> value, sourceType |-> sourceType,
   targetType |-> targetType, tz |-> tz, result |-> <<>>]

\* the converter is not part of the scenarios of Parts I to III
ConvInit == ConvCall(Null, <<>>, <<>>, 0)

InitEngine ==
  /\ isRunning = FALSE
  /\ shouldStop = FALSE
  /\ progress = initializeProgress
  /\ statistics = initializeStatistics
  /\ run = [r \in Runs |-> InitRun]
  /\ gh = [r \in Runs |-> InitGh]
  /\ lastCall = NoCall

\* the sources one call of startMigration() is explored against: a schema
\* of many tables whose streams yield at most one single-row batch, and a
\* schema of one table whose stream yields many batches of several rows
ManyTables == [runs |-> 1, tables |-> MaxTables, batches |-> 1, rows |-> 1,
               observe |-> TRUE]
ManyBatches == [runs |-> 1, tables |-> 1, batches |-> MaxBatches,
                rows |-> MaxBatchLen, observe |-> TRUE]

\* one call of startMigration() on a fresh engine
Init ==
  /\ InitEngine
  /\ me = MEInit
  /\ mapper = MapperInit
  /\ conv = ConvInit
  /\ \/ /\ lim = ManyTables
        /\ options \in [skipErrors : BOOLEAN, createIndexes : BOOLEAN,
                        validateData : BOOLEAN, maxRetries : {MaxRetryOpt}]
     \/ /\ lim = ManyBatches
        /\ options \in [skipErrors : BOOLEAN, createIndexes : BOOLEAN,
                        validateData : BOOLEAN, maxRetries : 0..MaxRetryOpt]

\* repeated calls of startMigration(): rejected ones, and two accepted runs,
\* in sequence or the second during the first's cleanup, of an engine
\* constructed with the default createIndexes and validateData
\* over a source schema of at most one table
InitRerun ==
  /\ InitEngine
  /\ me = MEInit
  /\ mapper = MapperInit
  /\ conv = ConvInit
  /\ options \in [skipErrors : BOOLEAN, createIndexes : {TRUE},
                  validateData : {TRUE}, maxRetries : {MaxRetryOpt}]
  /\ lim = [runs |-> 2, tables |-> 1, batches |-> RerunBatches,
            rows |-> 1, observe |-> FALSE]

\* an adapter call is issued by run r
Call(r, op, t, fresh) ==
  lastCall' = [run |-> r, op |-> op, table |-> t, fresh |-> fresh]

NoNewCall == lastCall' = NoCall

\* the histories are recorded in the scenarios that observe them
Obs(f) == IF lim.observe THEN f ELSE gh

\* this.updateProgress(phase), with the run's own record of the phases it set
SetPhase(p, ph) == [p EXCEPT !.phase = ph]
Hist(g, ph) == [g EXCEPT !.hist = Append(@, ph)]

\* --- startMigration(): the single-flight test (line 134)
AlreadyRunningNever == FALSE
AlreadyRunning == isRunning

\* --- if (!this.options.skipErrors) throw (lines 262, 360)
AbortNever == FALSE
AbortAlways == TRUE
AbortOnError == ~options.skipErrors

\* --- if (this.options.createIndexes) (line 156)
ShouldIndexAlways == TRUE
ShouldIndex == options.createIndexes

\* --- if (this.options.validateData) (line 161)
ShouldValidate == options.validateData

\* --- if (this.shouldStop) break, at the table loops (lines 245, 305, 444, 464)
TableStop == shouldStop

\* --- if (this.shouldStop) break, at the batch loop (line 331)
BatchStopIgnored == FALSE
BatchStop == shouldStop

\* --- catch of connectDatabases rethrows (lines 191-193)
ConnectFailureSwallowed == FALSE
ConnectFailureFatal == TRUE

\* --- insertBatchWithRetry: while (attempt < maxRetries) (line 411)
CanAttempt(a) == a < options.maxRetries
\* --- insertBatchWithRetry: if (attempt >= maxRetries) throw (line 418)
RetriesExhausted(a) == a >= options.maxRetries

\* startMigration() while a run is active: throws before the try block
StartRejected ==
  /\ Quiescent
  /\ AlreadyRunning
  /\ lastCall' = [NoCall EXCEPT !.op = "startMigration.rejected"]
  /\ UNCHANGED <<options, isRunning, shouldStop, progress, statistics, run,
                 gh, lim, me, mapper, conv>>

\* startMigration() accepted: up to the await of sourceAdapter.connect()
StartAccepted(r) ==
  /\ Quiescent
  /\ run[r].pc = "idle"
  /\ r <= lim.runs
  /\ \A q \in Runs : q < r => run[q].pc # "idle"
  /\ ~AlreadyRunning
  /\ isRunning' = TRUE
  /\ shouldStop' = FALSE
  /\ progress' = SetPhase(progress, "connecting")
  /\ run' = [run EXCEPT ![r].pc = "connSrc"]
  /\ gh' = Obs([gh EXCEPT ![r] = Hist(@, "connecting")])
  /\ Call(r, "connect.source", 0, FALSE)
  /\ UNCHANGED <<options, statistics, lim, me, mapper, conv>>

\* stop(): callable by anyone between two steps of the engine.  Calls made
\* while no run is active, or while shouldStop is already set, are left out:
\* the flag is reset when the next run is accepted (line 140).
Stop ==
  /\ Quiescent
  /\ \E r \in Runs : run[r].pc \notin {"idle", "settled"}
  /\ ~shouldStop
  /\ shouldStop' = TRUE
  /\ gh' = Obs([r \in Runs |->
              IF run[r].pc \notin {"idle", "settled"}
              THEN [gh[r] EXCEPT !.stopCalled = TRUE] ELSE gh[r]])
  /\ NoNewCall
  /\ UNCHANGED <<options, isRunning, progress, statistics, run, lim, me, mapper, conv>>

\* a failure of an adapter call, as the run's history records it
Failed(g) == [g EXCEPT !.failed = TRUE]
OtherFailed(g) == [g EXCEPT !.failed = TRUE, !.otherFail = TRUE]
ConnFailed(g, which) == [OtherFailed(g) EXCEPT !.connFailed = which]

\* connectDatabases: sourceAdapter.connect() settles
ConnSrc(r) ==
  /\ Quiescent
  /\ run[r].pc = "connSrc"
  /\ \/ /\ run' = [run EXCEPT ![r].pc = "connTgt"]
        /\ gh' = gh
        /\ Call(r, "connect.target", 0, FALSE)
     \/ IF ConnectFailureFatal
        THEN /\ run' = [run EXCEPT ![r].pc = "catch"]
             /\ gh' = Obs([gh EXCEPT ![r] = ConnFailed(@, "source")])
             /\ NoNewCall
        ELSE /\ run' = [run EXCEPT ![r].pc = "connTgt"]
             /\ gh' = Obs([gh EXCEPT ![r] = ConnFailed(@, "source")])
             /\ Call(r, "connect.target", 0, FALSE)
  /\ UNCHANGED <<options, isRunning, shouldStop, progress, statistics, lim, me, mapper, conv>>

\* connectDatabases: targetAdapter.connect() settles; analyzeSourceDatabase
\* up to the await of getSchema()
ConnTgt(r) ==
  /\ Quiescent
  /\ run[r].pc = "connTgt"
  /\ \/ /\ run' = [run EXCEPT ![r].pc = "getSchema"]
        /\ progress' = SetPhase(progress, "analyzing")
        /\ gh' = Obs([gh EXCEPT ![r] = Hist(@, "analyzing")])
        /\ Call(r, "getSchema", 0, FALSE)
     \/ /\ run' = [run EXCEPT ![r].pc = "catch"]
        /\ gh' = Obs([gh EXCEPT ![r] = ConnFailed(@, "target")])
        /\ progress' = progress
        /\ NoNewCall
  /\ UNCHANGED <<options, isRunning, shouldStop, statistics, lim, me, mapper, conv>>

\* createTargetStructure entered: updateProgress('creating')
EnterCreate(r, rn) ==
  /\ run' = [run EXCEPT ![r] = [rn EXCEPT !.pc = "createLoop", !.tbl = 1]]
  /\ gh' = Obs([gh EXCEPT ![r] = Hist(@, "creating")])
  /\ NoNewCall

\* analyzeSourceDatabase: getSchema() settles with n filtered tables
GetSchema(r) ==
  /\ Quiescent
  /\ run[r].pc = "getSchema"
  /\ \/ \E n \in 0..lim.tables :
          /\ statistics' = [statistics EXCEPT !.totalTables = n]
          /\ IF n = 0
             THEN /\ progress' = [SetPhase(progress, "creating")
                                    EXCEPT !.totalTables = n]
                  /\ EnterCreate(r, [run[r] EXCEPT !.n = n])
             ELSE /\ progress' = [progress EXCEPT !.totalTables = n]
                  /\ run' = [run EXCEPT ![r].pc = "count", ![r].n = n,
                                        ![r].tbl = 1]
                  /\ gh' = gh
                  /\ Call(r, "getRecordCount.source", 1, FALSE)
     \/ /\ run' = [run EXCEPT ![r].pc = "catch"]
        /\ gh' = Obs([gh EXCEPT ![r] = OtherFailed(@)])
        /\ UNCHANGED <<progress, statistics>>
        /\ NoNewCall
  /\ UNCHANGED <<options, isRunning, shouldStop, lim, me, mapper, conv>>

\* analyzeSourceDatabase: getRecordCount(table) settles; a failure is logged
Count(r) ==
  /\ Quiescent
  /\ run[r].pc = "count"
  /\ \E ok \in BOOLEAN :
       LET c  == RowsOf(run[r].tbl)
           p1 == IF ok THEN [progress EXCEPT !.totalRecords = @ + c]
                 ELSE progress
           s1 == IF ok THEN [statistics EXCEPT !.totalRecords = @ + c]
                 ELSE statistics
           g1 == IF ok THEN gh[r] ELSE Failed(gh[r])
       IN /\ statistics' = s1
          /\ IF run[r].tbl < run[r].n
             THEN /\ progress' = p1
                  /\ run' = [run EXCEPT ![r].tbl = @ + 1]
                  /\ gh' = Obs([gh EXCEPT ![r] = g1])
                  /\ Call(r, "getRecordCount.source", run[r].tbl + 1, FALSE)
             ELSE /\ progress' = SetPhase(p1, "creating")
                  /\ run' = [run EXCEPT ![r].pc = "createLoop", ![r].tbl = 1]
                  /\ gh' = Obs([gh EXCEPT ![r] = Hist(g1, "creating")])
                  /\ NoNewCall
  /\ UNCHANGED <<options, isRunning, shouldStop, lim, me, mapper, conv>>

\* migrateData entered: updateProgress('migrating')
EnterMigrate(r) ==
  /\ progress' = SetPhase(progress, "migrating")
  /\ run' = [run EXCEPT ![r].pc = "migrateLoop", ![r].tbl = 1]
  /\ gh' = Obs([gh EXCEPT ![r] = Hist(@, "migrating")])
  /\ NoNewCall

\* createTargetStructure: head of the table loop, up to await createTable()
CreateLoop(r) ==
  /\ run[r].pc = "createLoop"
  /\ IF run[r].tbl > run[r].n \/ TableStop
     THEN EnterMigrate(r)
     ELSE /\ run' = [run EXCEPT ![r].pc = "create"]
          /\ gh' = Obs([gh EXCEPT ![r].created = @ \cup {run[r].tbl}])
          /\ Call(r, "createTable", run[r].tbl, TRUE)
          /\ progress' = progress
  /\ UNCHANGED <<options, isRunning, shouldStop, statistics, lim, me, mapper, conv>>

\* createTargetStructure: createTable() settles
Create(r) ==
  /\ Quiescent
  /\ run[r].pc = "create"
  /\ \/ /\ run' = [run EXCEPT ![r].pc = "createLoop", ![r].tbl = @ + 1]
        /\ UNCHANGED <<progress, statistics, gh>>
     \/ /\ progress' = [progress EXCEPT
                          !.errors = Append(@, <<"create", run[r].tbl>>)]
        /\ statistics' = [statistics EXCEPT !.errors = @ + 1]
        /\ IF AbortOnError
           THEN /\ run' = [run EXCEPT ![r].pc = "catch"]
                /\ gh' = Obs([gh EXCEPT ![r] = [Failed(@) EXCEPT
                             !.tableFails = @ + 1, !.aborted = TRUE]])
           ELSE /\ run' = [run EXCEPT ![r].pc = "createLoop",
                                      ![r].tbl = @ + 1]
                /\ gh' = Obs([gh EXCEPT ![r] = [Failed(@) EXCEPT
                             !.tableFails = @ + 1]])
  /\ NoNewCall
  /\ UNCHANGED <<options, isRunning, shouldStop, lim, me, mapper, conv>>

\* migrateTable returns or throws: its locals (batch, attempt) are gone
LeaveTable(rn, pc) == [rn EXCEPT !.pc = pc, !.att = 0, !.bat = 0, !.blen = 0]

\* the attempts and sleeps recorded for a batch end with the batch
BatchOver(g) == [g EXCEPT !.tries = 0, !.sleeps = 0]

\* migrateData: after migrateTable() returned; up to the await of
\* getRecordCount() whose answer is the argument of emit('tableComplete')
TableDone(r, p, s, g) ==
  /\ progress' = [p EXCEPT !.tablesCompleted = @ + 1]
  /\ statistics' = [s EXCEPT !.tablesProcessed = @ + 1]
  /\ run' = [run EXCEPT ![r] = LeaveTable(@, "tableCount")]
  /\ gh' = Obs([gh EXCEPT ![r] = BatchOver(g)])
  /\ Call(r, "getRecordCount.source", run[r].tbl, FALSE)

\* migrateTable: the catch block (lines 353-363)
TableCatch(r, g) ==
  LET p1 == [progress EXCEPT !.errors = Append(@, <<"migrate", run[r].tbl>>)]
      s1 == [statistics EXCEPT !.errors = @ + 1,
               !.problematicTables = Append(@, run[r].tbl)]
      g1 == [Failed(g) EXCEPT !.tableFails = @ + 1]
  IN IF AbortOnError
     THEN /\ progress' = p1
          /\ statistics' = s1
          /\ run' = [run EXCEPT ![r] = LeaveTable(@, "catch")]
          /\ gh' = Obs([gh EXCEPT ![r] = [BatchOver(g1) EXCEPT !.aborted = TRUE]])
          /\ NoNewCall
     ELSE TableDone(r, p1, s1, g1)

\* after migrateData's loop: createIndexes / validateMigration / complete
AfterMigrate(r) ==
  IF ShouldIndex
  THEN /\ progress' = SetPhase(progress, "indexing")
       /\ run' = [run EXCEPT ![r].pc = "indexLoop", ![r].tbl = 1]
       /\ gh' = Obs([gh EXCEPT ![r] = Hist(@, "indexing")])
  ELSE IF ShouldValidate
  THEN /\ progress' = SetPhase(progress, "validating")
       /\ run' = [run EXCEPT ![r].pc = "validateLoop", ![r].tbl = 1]
       /\ gh' = Obs([gh EXCEPT ![r] = Hist(@, "validating")])
  ELSE /\ progress' = progress
       /\ run' = [run EXCEPT ![r].pc = "complete"]
       /\ gh' = gh

\* migrateData: head of the table loop, up to await streamData()
MigrateLoop(r) ==
  /\ run[r].pc = "migrateLoop"
  /\ IF run[r].tbl > run[r].n \/ TableStop
     THEN AfterMigrate(r) /\ NoNewCall
     ELSE /\ progress' = [progress EXCEPT !.currentTable = run[r].tbl]
          /\ run' = [run EXCEPT ![r].pc = "stream", ![r].bat = 0]
          /\ gh' = Obs([gh EXCEPT ![r].streamed = @ \cup {run[r].tbl}])
          /\ Call(r, "streamData", run[r].tbl, TRUE)
  /\ UNCHANGED <<options, isRunning, shouldStop, statistics, lim, me, mapper, conv>>

\* migrateTable: streamData() settles; for await asks for the first batch
Stream(r) ==
  /\ Quiescent
  /\ run[r].pc = "stream"
  /\ \/ /\ run' = [run EXCEPT ![r].pc = "next"]
        /\ Call(r, "stream.next", run[r].tbl, FALSE)
        /\ UNCHANGED <<progress, statistics, gh>>
     \/ TableCatch(r, gh[r])
  /\ UNCHANGED <<options, isRunning, shouldStop, lim, me, mapper, conv>>

\* migrateTable: statements after insertBatchWithRetry returned (339-348),
\* then for await asks for the next batch
AfterInsert(r, rn, g) ==
  /\ progress' = [progress EXCEPT !.recordsProcessed = @ + rn.blen]
  /\ statistics' = [statistics EXCEPT !.recordsProcessed = @ + rn.blen]
  /\ run' = [run EXCEPT ![r] = [rn EXCEPT !.pc = "next", !.att = 0, !.blen = 0]]
  /\ gh' = Obs([gh EXCEPT ![r] = BatchOver(g)])
  /\ Call(r, "stream.next", run[r].tbl, FALSE)

\* migrateTable: the stream answers: a batch, the end, or an error
NextBatch(r) ==
  /\ Quiescent
  /\ run[r].pc = "next"
  /\ \/ /\ run[r].bat < lim.batches
        /\ \E len \in 1..lim.rows :
             LET rn == [run[r] EXCEPT !.bat = @ + 1, !.blen = len, !.att = 0]
                 g0 == [gh[r] EXCEPT !.tries = 0, !.sleeps = 0]
             IN IF BatchStop
                THEN TableDone(r, progress, statistics, gh[r])
                ELSE IF CanAttempt(0)
                THEN /\ run' = [run EXCEPT ![r] = [rn EXCEPT !.pc = "insert"]]
                     /\ gh' = Obs([gh EXCEPT ![r] = [g0 EXCEPT !.tries = 1]])
                     /\ Call(r, "insertData", run[r].tbl, TRUE)
                     /\ UNCHANGED <<progress, statistics>>
                ELSE AfterInsert(r, rn, g0)
     \/ TableDone(r, progress, statistics, gh[r])
     \/ TableCatch(r, gh[r])
  /\ UNCHANGED <<options, isRunning, shouldStop, lim, me, mapper, conv>>

\* insertBatchWithRetry: insertData() settles
Insert(r) ==
  /\ Quiescent
  /\ run[r].pc = "insert"
  /\ \/ AfterInsert(r, run[r], gh[r])
     \/ LET a == run[r].att + 1
        IN IF RetriesExhausted(a)
           THEN TableCatch(r, gh[r])
           ELSE /\ run' = [run EXCEPT ![r].pc = "sleep", ![r].att = a]
                /\ gh' = Obs([gh EXCEPT ![r] = [Failed(@) EXCEPT !.sleeps = @ + 1]])
                /\ NoNewCall
                /\ UNCHANGED <<progress, statistics>>
  /\ UNCHANGED <<options, isRunning, shouldStop, lim, me, mapper, conv>>

\* insertBatchWithRetry: sleep(retryDelay) is over, the while loop goes round
Sleep(r) ==
  /\ Quiescent
  /\ run[r].pc = "sleep"
  /\ IF CanAttempt(run[r].att)
     THEN /\ run' = [run EXCEPT ![r].pc = "insert"]
          /\ gh' = Obs([gh EXCEPT ![r].tries = @ + 1])
          /\ Call(r, "insertData", run[r].tbl, FALSE)
          /\ UNCHANGED <<progress, statistics>>
     ELSE AfterInsert(r, run[r], gh[r])
  /\ UNCHANGED <<options, isRunning, shouldStop, lim, me, mapper, conv>>

\* migrateData: getRecordCount() for emit('tableComplete') settles
TableCount(r) ==
  /\ Quiescent
  /\ run[r].pc = "tableCount"
  /\ \/ /\ run' = [run EXCEPT ![r].pc = "migrateLoop", ![r].tbl = @ + 1]
        /\ gh' = gh
     \/ /\ run' = [run EXCEPT ![r].pc = "catch"]
        /\ gh' = Obs([gh EXCEPT ![r] = OtherFailed(@)])
  /\ NoNewCall
  /\ UNCHANGED <<options, isRunning, shouldStop, progress, statistics, lim, me, mapper, conv>>

\* after createIndexes' loop: validateMigration / complete
AfterIndex(r) ==
  IF ShouldValidate
  THEN /\ progress' = SetPhase(progress, "validating")
       /\ run' = [run EXCEPT ![r].pc = "validateLoop", ![r].tbl = 1]
       /\ gh' = Obs([gh EXCEPT ![r] = Hist(@, "validating")])
  ELSE /\ progress' = progress
       /\ run' = [run EXCEPT ![r].pc = "complete"]
       /\ gh' = gh

\* createIndexes: head of the table loop; a table without primary key is
\* passed over, otherwise up to the await of targetAdapter.query()
IndexLoop(r) ==
  /\ run[r].pc = "indexLoop"
  /\ IF run[r].tbl > run[r].n \/ TableStop
     THEN AfterIndex(r) /\ NoNewCall
     ELSE \/ /\ run' = [run EXCEPT ![r].pc = "indexQ"]
             /\ Call(r, "query.index", run[r].tbl, TRUE)
             /\ UNCHANGED <<progress, gh>>
          \/ /\ run' = [run EXCEPT ![r].tbl = @ + 1]
             /\ NoNewCall
             /\ UNCHANGED <<progress, gh>>
  /\ UNCHANGED <<options, isRunning, shouldStop, statistics, lim, me, mapper, conv>>

\* createIndexes: query() settles; a failure is a warning in the log
IndexQ(r) ==
  /\ Quiescent
  /\ run[r].pc = "indexQ"
  /\ run' = [run EXCEPT ![r].pc = "indexLoop", ![r].tbl = @ + 1]
  /\ \/ gh' = gh
     \/ gh' = Obs([gh EXCEPT ![r] = Failed(@)])
  /\ NoNewCall
  /\ UNCHANGED <<options, isRunning, shouldStop, progress, statistics, lim, me, mapper, conv>>

\* validateMigration: head of the table loop
ValidateLoop(r) ==
  /\ run[r].pc = "validateLoop"
  /\ IF run[r].tbl > run[r].n \/ TableStop
     THEN /\ run' = [run EXCEPT ![r].pc = "complete"]
          /\ NoNewCall
     ELSE /\ run' = [run EXCEPT ![r].pc = "valSrc"]
          /\ Call(r, "validate.source", run[r].tbl, TRUE)
  /\ UNCHANGED <<options, isRunning, shouldStop, progress, statistics, gh, lim, me, mapper, conv>>

\* validateMigration: sourceAdapter.getRecordCount() settles
ValSrc(r) ==
  /\ Quiescent
  /\ run[r].pc = "valSrc"
  /\ \/ /\ run' = [run EXCEPT ![r].pc = "valTgt"]
        /\ gh' = gh
        /\ Call(r, "validate.target", run[r].tbl, FALSE)
     \/ /\ run' = [run EXCEPT ![r].pc = "validateLoop", ![r].tbl = @ + 1]
        /\ gh' = Obs([gh EXCEPT ![r] = Failed(@)])
        /\ NoNewCall
  /\ UNCHANGED <<options, isRunning, shouldStop, progress, statistics, lim, me, mapper, conv>>

\* validateMigration: targetAdapter.getRecordCount() settles; differing
\* counts add a warning
ValTgt(r) ==
  /\ Quiescent
  /\ run[r].pc = "valTgt"
  /\ run' = [run EXCEPT ![r].pc = "validateLoop", ![r].tbl = @ + 1]
  /\ \/ UNCHANGED <<progress, statistics, gh>>
     \/ /\ progress' = [progress EXCEPT !.warnings = @ + 1]
        /\ statistics' = [statistics EXCEPT !.warnings = @ + 1]
        /\ gh' = gh
     \/ /\ gh' = Obs([gh EXCEPT ![r] = Failed(@)])
        /\ UNCHANGED <<progress, statistics>>
  /\ NoNewCall
  /\ UNCHANGED <<options, isRunning, shouldStop, lim, me, mapper, conv>>

\* cleanup(): isRunning = false, then await sourceAdapter.disconnect()
CleanupLeavesRunning(r) ==
  /\ isRunning' = isRunning
  /\ Call(r, "disconnect.source", 0, FALSE)
CleanupBegin(r) ==
  /\ isRunning' = FALSE
  /\ Call(r, "disconnect.source", 0, FALSE)

\* completeMigration(), return this.statistics, and the finally block
CompleteStoppedAsError(r) ==
  /\ run[r].pc = "complete"
  /\ LET ph == IF shouldStop THEN "error" ELSE "complete"
     IN /\ progress' = SetPhase(progress, ph)
        /\ run' = [run EXCEPT ![r] = [InitRun EXCEPT !.pc = "discSrc",
                     !.result = IF shouldStop THEN "rejected" ELSE "resolved"]]
        /\ gh' = Obs([gh EXCEPT ![r] = [Hist(@, ph) EXCEPT
                     !.events = @ \cup {ph}, !.retStats = ~shouldStop,
                     !.disc = @ \cup {"source"}]])
  /\ CleanupBegin(r)
  /\ UNCHANGED <<options, shouldStop, statistics, lim, me, mapper, conv>>

Complete(r) ==
  /\ run[r].pc = "complete"
  /\ progress' = SetPhase(progress, "complete")
  /\ run' = [run EXCEPT ![r] = [InitRun EXCEPT !.pc = "discSrc",
                                             !.result = "resolved"]]
  /\ gh' = Obs([gh EXCEPT ![r] = [Hist(@, "complete") EXCEPT
               !.events = @ \cup {"complete"}, !.retStats = TRUE,
               !.disc = @ \cup {"source"}]])
  /\ CleanupBegin(r)
  /\ UNCHANGED <<options, shouldStop, statistics, lim, me, mapper, conv>>

\* the catch block of startMigration: handleMigrationError(), rethrow, and
\* the finally block
Catch(r) ==
  /\ run[r].pc = "catch"
  /\ progress' = SetPhase(progress, "error")
  /\ run' = [run EXCEPT ![r] = [InitRun EXCEPT !.pc = "discSrc",
                                             !.result = "rejected"]]
  /\ gh' = Obs([gh EXCEPT ![r] = [Hist(@, "error") EXCEPT
               !.events = @ \cup {"error"}, !.disc = @ \cup {"source"}]])
  /\ CleanupBegin(r)
  /\ UNCHANGED <<options, shouldStop, statistics, lim, me, mapper, conv>>

\* cleanup(): sourceAdapter.disconnect() settles; a failure leaves the try
\* block and is logged, then the promise of startMigration settles
DiscSrc(r) ==
  /\ Quiescent
  /\ run[r].pc = "discSrc"
  /\ \/ /\ run' = [run EXCEPT ![r].pc = "discTgt"]
        /\ gh' = Obs([gh EXCEPT ![r].disc = @ \cup {"target"}])
        /\ Call(r, "disconnect.target", 0, FALSE)
     \/ /\ run' = [run EXCEPT ![r].pc = "settled"]
        /\ gh' = Obs([gh EXCEPT ![r] = Failed(@)])
        /\ NoNewCall
  /\ UNCHANGED <<options, isRunning, shouldStop, progress, statistics, lim, me, mapper, conv>>

\* cleanup(): targetAdapter.disconnect() settles, the promise settles
DiscTgt(r) ==
  /\ Quiescent
  /\ run[r].pc = "discTgt"
  /\ run' = [run EXCEPT ![r].pc = "settled"]
  /\ \/ gh' = gh
     \/ gh' = Obs([gh EXCEPT ![r] = Failed(@)])
  /\ NoNewCall
  /\ UNCHANGED <<options, isRunning, shouldStop, progress, statistics, lim, me, mapper, conv>>

\* the steps of accepted runs, and stop()
NextRun ==
  \/ Stop
  \/ \E r \in Runs : StartAccepted(r)
  \/ \E r \in Runs : ConnSrc(r)
  \/ \E r \in Runs : ConnTgt(r)
  \/ \E r \in Runs : GetSchema(r)
  \/ \E r \in Runs : Count(r)
  \/ \E r \in Runs : CreateLoop(r)
  \/ \E r \in Runs : Create(r)
  \/ \E r \in Runs : MigrateLoop(r)
  \/ \E r \in Runs : Stream(r)
  \/ \E r \in Runs : NextBatch(r)
  \/ \E r \in Runs : Insert(r)
  \/ \E r \in Runs : Sleep(r)
  \/ \E r \in Runs : TableCount(r)
  \/ \E r \in Runs : IndexLoop(r)
  \/ \E r \in Runs : IndexQ(r)
  \/ \E r \in Runs : ValidateLoop(r)
  \/ \E r \in Runs : ValSrc(r)
  \/ \E r \in Runs : ValTgt(r)
  \/ \E r \in Runs : Complete(r)
  \/ \E r \in Runs : Catch(r)
  \/ \E r \in Runs : DiscSrc(r)
  \/ \E r \in Runs : DiscTgt(r)

\* ... and the calls of startMigration() that find a run active
Next ==
  \/ StartRejected
  \/ NextRun

\* one call of startMigration(), with stop() called at any time
Spec == Init /\ [][NextRun]_vars

SpecRerun == InitRerun /\ [][Next]_vars

\* the awaited call of run r settles, or its synchronous code goes on
RunStep(r) ==
  \/ ConnSrc(r) \/ ConnTgt(r) \/ GetSchema(r) \/ Count(r)
  \/ CreateLoop(r) \/ Create(r)
  \/ MigrateLoop(r) \/ Stream(r) \/ NextBatch(r) \/ Insert(r) \/ Sleep(r)
  \/ TableCount(r)
  \/ IndexLoop(r) \/ IndexQ(r)
  \/ ValidateLoop(r) \/ ValSrc(r) \/ ValTgt(r)
  \/ Complete(r) \/ Catch(r) \/ DiscSrc(r) \/ DiscTgt(r)

\* every adapter call and every sleep an accepted run awaits eventually
\* resolves or rejects; stop() and further startMigration() calls may or may
\* not happen
SpecRerunLive == SpecRerun /\ \A r \in Runs : WF_vars(RunStep(r))

\* POST /api/migrate: the options the handler builds from the request body
\* (enhanced-server.ts 583-596); the engine has no dry-run option of its own
migrationOptions(dryRun) ==
  [skipErrors |-> FALSE, createIndexes |-> TRUE, validateData |-> ~dryRun,
   maxRetries |-> 3]

\* the request's options.dryRun, as the engine it launched retains it
WebDryRun == ~options.validateData

\* POST /api/migrate constructs an engine and calls startMigration() on it
InitWeb ==
  /\ InitEngine
  /\ me = MEInit
  /\ mapper = MapperInit
  /\ conv = ConvInit
  /\ \E dryRun \in BOOLEAN : options = migrationOptions(dryRun)
  /\ lim = ManyTables

SpecWeb == InitWeb /\ [][NextRun]_vars

TypeOK ==
  /\ isRunning \in BOOLEAN
  /\ shouldStop \in BOOLEAN
  /\ \A r \in Runs : run[r].tbl \in 0..(lim.tables + 1)

\* ------------------------------------------------------------------------
\* Part II : MigrationEngine, operations
\* ------------------------------------------------------------------------

\* chunkArray(array, size): consecutive slices of at most size elements
RECURSIVE ChunkFrom(_, _, _)
ChunkFrom(array, size, i) ==
  IF i > Len(array) THEN <<>>
  ELSE LET hi == IF i + size - 1 < Len(array) THEN i + size - 1
                 ELSE Len(array)
       IN <<SubSeq(array, i, hi)>> \o ChunkFrom(array, size, i + size)
chunkArray(array, size) == ChunkFrom(array, size, 1)

\* determineTablesToMigrate: the names of the tables to migrate, in order
TablesToMigrate(cfg) == [i \in 1..cfg.n |-> i]

\* the groups of tables awaited together: migrateTablesParallel awaits
\* Promise.all of each chunk, migrateTablesSequential awaits table by table
MEGroups(cfg) ==
  IF cfg.parallelTables > 1
  THEN chunkArray(TablesToMigrate(cfg), cfg.parallelTables)
  ELSE [i \in 1..cfg.n |-> <<i>>]

SeqSet(q) == {q[i] : i \in DOMAIN q}

\* rows 1..R of a source stream, in stream order
StreamRows(cfg) == [k \in 1..cfg.rows |-> k]

\* the awaits of executeMigration before the tables are counted (643-652)
PrepSteps == <<"connect.source", "connect.target", "testConnection.source",
               "testConnection.target", "getSchema.source",
               "getSchema.target">>

MECall(m, op, t) == [m EXCEPT !.call = [op |-> op, table |-> t]]
MEQuiet(m) == [m EXCEPT !.call = MENoCall]

\* the finally block of executeMigration, up to await source.disconnect()
MEFinallyNoDisconnect(m, failing) ==
  MEQuiet([m EXCEPT !.pc = "discTgt", !.failing = failing])
MEFinally(m, failing) ==
  MECall([m EXCEPT !.pc = "discSrc", !.failing = failing,
                   !.disc = @ \cup {"source"}], "disconnect.source", 0)

\* statements 683-694: status completed, migration:completed, then finally
MEComplete(m) ==
  MEFinally([m EXCEPT !.status = "completed", !.ev.completed = @ + 1], FALSE)

\* migrateTable(jobId, t) up to await getTableInfo()
RECURSIVE MEStartTasks(_, _, _)
MEStartTasks(m, q, i) ==
  IF i > Len(q) THEN m
  ELSE MEStartTasks(
         MECall([m EXCEPT !.currentTable = q[i],
                          !.tableStarted[q[i]] = @ + 1,
                          !.task[q[i]] = "tableInfo"], "getTableInfo", q[i]),
         q, i + 1)

\* the next group of tables is started, or the job completes
MEStartGroup(m, k) ==
  IF k > Len(MEGroups(m.cfg))
  THEN MEComplete([m EXCEPT !.pc = "finishing"])
  ELSE MEStartTasks([m EXCEPT !.pc = "tables", !.chunk = k],
                    MEGroups(m.cfg)[k], 1)

\* startMigration(config) up to await source.connect()
MEStart ==
  /\ me.pc = "idle"
  /\ me' = MECall([me EXCEPT !.pc = "prep", !.step = 1, !.status = "running",
                    !.ev.started = @ + 1, !.ev.migrationProgress = @ + 1],
                  PrepSteps[1], 0)
  /\ UNCHANGED <<imeVars, mapper, conv>>

\* connect, testConnection and getSchema of both adapters settle in turn
MEPrepare ==
  /\ me.pc = "prep"
  /\ \/ IF me.step < Len(PrepSteps)
        THEN me' = MECall([me EXCEPT !.step = @ + 1], PrepSteps[me.step + 1], 0)
        ELSE IF me.cfg.n = 0
        THEN me' = MEStartGroup([me EXCEPT !.totalRows = 0], 1)
        ELSE me' = MECall([me EXCEPT !.pc = "count", !.step = 1],
                          "countRows", 1)
     \/ me' = MEFinally([me EXCEPT !.failedAt = PrepSteps[me.step]], TRUE)
  /\ UNCHANGED <<imeVars, mapper, conv>>

\* calculateTotalRows: countRows(table) settles
MECount ==
  /\ me.pc = "count"
  /\ \/ IF me.step < me.cfg.n
        THEN me' = MECall([me EXCEPT !.step = @ + 1], "countRows", me.step + 1)
        ELSE me' = MEStartGroup(
                     [me EXCEPT !.totalRows = me.cfg.n * me.cfg.rows], 1)
     \/ me' = MEFinally([me EXCEPT !.failedAt = "countRows"], TRUE)
  /\ UNCHANGED <<imeVars, mapper, conv>>

\* migrateTable returned: when its whole group has, the job goes on
METaskDoneEager(m, t) ==
  IF m.pc = "tables" THEN MEStartGroup(m, m.chunk + 1) ELSE m
METaskDone(m, t) ==
  IF m.pc = "tables" /\ \A u \in SeqSet(MEGroups(m.cfg)[m.chunk]) :
                          m.task[u] = "done"
  THEN MEStartGroup(m, m.chunk + 1)
  ELSE m

\* migrateTable threw: table:failed, and the job's await rejects
METaskFail(m, t) ==
  LET m1 == [m EXCEPT !.task[t] = "failed", !.tableFailed[t] = @ + 1]
  IN IF m1.pc = "tables"
     THEN MEFinally([m1 EXCEPT !.failedAt = "migrateTable"], TRUE)
     ELSE MEQuiet(m1)

\* config.mapping?.tables?.[tableName] || tableName (line 781)
targetTableName(cfg, tableName) == IF cfg.merge THEN 1 ELSE tableName

\* a createTable call of the job for target table g has resolved: from then
\* on listTables() lists g (what it lists besides is up to the target)
MECreated(m, g) ==
  \E u \in METableSet :
    /\ targetTableName(m.cfg, u) = g
    /\ m.creates[u] > 0
    /\ m.task[u] \in {"streamRows", "lastInsert", "done"}

\* if (!config.dryRun), before createTable and insertRows (786, 809, 841)
MEWritesAlways(m) == TRUE
MEWrites(m) == ~m.cfg.dryRun

\* migrateTable after the 'data' listener is attached (lines 839-848)
METableEnd(m, t) ==
  LET m1 == [m EXCEPT !.flowing[t] = TRUE]
  IN IF Len(m1.batch[t]) > 0
     THEN IF MEWrites(m1)
          THEN MECall([m1 EXCEPT !.task[t] = "lastInsert",
                         !.inserts[t] = Append(@, m1.batch[t])],
                      "insertRows", t)
          ELSE METaskDone(MEQuiet(
                 [m1 EXCEPT !.processedRows = @ + Len(m1.batch[t]),
                            !.tableCompleted[t] = Append(@, m1.inTable[t]),
                            !.task[t] = "done"]), t)
     ELSE METaskDone(MEQuiet(
            [m1 EXCEPT !.tableCompleted[t] = Append(@, m1.inTable[t]),
                       !.task[t] = "done"]), t)

\* migrateTable(t): one of its awaits settles
METaskStep(t) ==
  /\ me.task[t] \in {"tableInfo", "listTables", "createTable", "streamRows",
                     "lastInsert"}
  /\ \/ /\ me.task[t] = "tableInfo"
        /\ me' = MECall([me EXCEPT !.task[t] = "listTables"], "listTables", t)
     \/ /\ me.task[t] = "listTables"
        /\ \E present \in BOOLEAN :
             /\ MECreated(me, targetTableName(me.cfg, t)) => present
             /\ IF ~present /\ MEWrites(me)
                THEN me' = MECall([me EXCEPT !.task[t] = "createTable",
                                     !.creates[t] = @ + 1], "createTable", t)
                ELSE me' = MECall([me EXCEPT !.task[t] = "streamRows"],
                                  "streamRows", t)
     \/ /\ me.task[t] = "createTable"
        /\ me' = MECall([me EXCEPT !.task[t] = "streamRows"], "streamRows", t)
     \/ /\ me.task[t] = "streamRows"
        /\ me' = METableEnd(me, t)
     \/ /\ me.task[t] = "lastInsert"
        /\ me' = METaskDone(MEQuiet(
                   [me EXCEPT !.processedRows = @ + Len(me.batch[t]),
                              !.tableCompleted[t] = Append(@, me.inTable[t]),
                              !.task[t] = "done"]), t)
     \/ me' = METaskFail(me, t)
  /\ UNCHANGED <<imeVars, mapper, conv>>

\* the stream emits 'data': the listener up to its await (lines 806-819),
\* or to its end in a dry run
MEDeliver(t) ==
  /\ me.flowing[t]
  /\ me.delivered[t] < me.cfg.rows
  /\ LET row == StreamRows(me.cfg)[me.delivered[t] + 1]
         b == Append(me.batch[t], row)
         m1 == [me EXCEPT !.delivered[t] = @ + 1, !.batch[t] = b]
     IN IF Len(b) >= me.cfg.batchSize
        THEN IF MEWrites(me)
             THEN me' = MECall([m1 EXCEPT !.inserts[t] = Append(@, b),
                                          !.pending[t] = @ + 1],
                               "insertRows", t)
             ELSE me' = MEQuiet([m1 EXCEPT !.processedRows = @ + Len(b),
                                           !.inTable[t] = @ + Len(b),
                                           !.ev.progress = @ + 1,
                                           !.batch[t] = <<>>])
        ELSE me' = MEQuiet(m1)
  /\ UNCHANGED <<imeVars, mapper, conv>>

\* a listener's insertRows() settles: lines 821-831, or its catch block
MEInsertSettle(t) ==
  /\ me.pending[t] > 0
  /\ \/ me' = MEQuiet([me EXCEPT !.pending[t] = @ - 1,
                        !.processedRows = @ + Len(me.batch[t]),
                        !.inTable[t] = @ + Len(me.batch[t]),
                        !.ev.progress = @ + 1,
                        !.batch[t] = <<>>])
     \/ me' = MEQuiet([me EXCEPT !.pending[t] = @ - 1,
                        !.nErrors = @ + 1, !.errorCount = @ + 1])
  /\ UNCHANGED <<imeVars, mapper, conv>>

\* the finally block: the disconnects settle; a failure is logged; then
\* startMigration's catch marks a job that threw as failed
MESettleSilent(m) == MEQuiet([m EXCEPT !.pc = "done"])
MESettle(m) ==
  MEQuiet(IF m.failing
          THEN [m EXCEPT !.pc = "done", !.status = "failed",
                         !.nErrors = @ + 1, !.ev.failed = @ + 1]
          ELSE [m EXCEPT !.pc = "done"])

MEDisconnect ==
  /\ me.pc \in {"discSrc", "discTgt"}
  /\ \/ /\ me.pc = "discSrc"
        /\ me' = MECall([me EXCEPT !.pc = "discTgt",
                           !.disc = @ \cup {"target"}], "disconnect.target", 0)
     \/ /\ me.pc = "discTgt"
        /\ me' = MESettle(me)
     \/ me' = MESettle(me)
  /\ UNCHANGED <<imeVars, mapper, conv>>

\* stopMigration(jobId)
MEStop ==
  /\ me.status = "running"
  /\ me' = MEQuiet([me EXCEPT !.status = "paused", !.ev.stopped = @ + 1])
  /\ UNCHANGED <<imeVars, mapper, conv>>

NextME ==
  \/ MEStart
  \/ MEPrepare
  \/ MECount
  \/ \E t \in METableSet : METaskStep(t)
  \/ \E t \in METableSet : MEDeliver(t)
  \/ \E t \in METableSet : MEInsertSettle(t)
  \/ MEDisconnect
  \/ MEStop

InitME ==
  /\ InitEngine
  /\ options = [skipErrors |-> FALSE, createIndexes |-> TRUE,
                validateData |-> TRUE, maxRetries |-> 3]
  /\ lim = [runs |-> 0, tables |-> 0, batches |-> 0, rows |-> 0,
            observe |-> FALSE]
  /\ me \in {MEIdle(c) : c \in MEConfigs}
  /\ mapper = MapperInit
  /\ conv = ConvInit

SpecME == InitME /\ [][NextME]_vars

\* every adapter call the job awaits eventually resolves or rejects
MEFairness ==
  /\ WF_vars(MEPrepare)
  /\ WF_vars(MECount)
  /\ \A t \in METableSet : WF_vars(METaskStep(t))
  /\ WF_vars(MEDisconnect)

SpecMELive == SpecME /\ MEFairness

\* ------------------------------------------------------------------------
\* Part III : IntelligentMappingEngine, the similarity functions applied
\* ------------------------------------------------------------------------

\* sequences over S of length at most n
SeqsUpTo(S, n) == UNION {[1..k -> S] : k \in 0..n}

\* strings that exercise case folding, trimming, containment and distance
SimChars == {"a", "A", "b", " "}
SimStrings == SeqsUpTo(SimChars, MaxStrLen)

\* columns and tables the similarity of tables is computed for
SimColumns ==
  {[name |-> <<"i", "d">>, type |-> <<"I", "N", "T">>],
   [name |-> <<"I", "D">>, type |-> <<"i", "n", "t", "e", "g", "e", "r">>],
   [name |-> <<"n", "o">>, type |-> <<"C", "H", "A", "R">>]}
SimTables ==
  [name : {<<"a">>, <<"A", "b">>, <<"b", "a">>},
   columns : SeqsUpTo(SimColumns, MaxCols)]

InitSim ==
  /\ InitEngine
  /\ options = [skipErrors |-> FALSE, createIndexes |-> TRUE,
                validateData |-> TRUE, maxRetries |-> 3]
  /\ lim = [runs |-> 0, tables |-> 0, batches |-> 0, rows |-> 0,
            observe |-> FALSE]
  /\ me = MEInit
  /\ conv = ConvInit
  /\ \/ \E a \in SimStrings : \E b \in SimStrings :
          mapper = [MapperInit EXCEPT !.input = <<"strings", a, b>>]
     \/ \E s \in SimTables : \E t \in SimTables :
          mapper = [MapperInit EXCEPT !.input = <<"tables", s, t>>]

\* calculateStringSimilarity applied to the two strings, in both orders
ApplyStringSimilarity ==
  /\ mapper.pc = "idle"
  /\ mapper.input[1] = "strings"
  /\ mapper' = [mapper EXCEPT !.pc = "returned",
       !.output = <<calculateStringSimilarity(mapper.input[2], mapper.input[3]),
                    calculateStringSimilarity(mapper.input[3], mapper.input[2])>>]
  /\ UNCHANGED <<imeVars, me, conv>>

\* calculateTableSimilarity applied to the two tables
ApplyTableSimilarity ==
  /\ mapper.pc = "idle"
  /\ mapper.input[1] = "tables"
  /\ mapper' = [mapper EXCEPT !.pc = "returned",
       !.output = <<calculateTableSimilarity(mapper.input[2], mapper.input[3])>>]
  /\ UNCHANGED <<imeVars, me, conv>>

NextSim ==
  \/ ApplyStringSimilarity
  \/ ApplyTableSimilarity

SpecSim == InitSim /\ [][NextSim]_vars

\* type strings as adapters report them: with and without parameters, in
\* either case, of the same group, of different groups and of no group
SimTypes ==
  {<<"V", "A", "R", "C", "H", "A", "R", "(", "5", "0", ")">>,
   <<"v", "a", "r", "c", "h", "a", "r", "(", "2", "5", "5", ")">>,
   <<"V", "A", "R", "C", "H", "A", "R">>,
   <<"c", "h", "a", "r">>,
   <<"C", "H", "A", "R", "(", "1", ")">>,
   <<"I", "N", "T">>,
   <<"i", "n", "t", "e", "g", "e", "r">>,
   <<"D", "E", "C", "I", "M", "A", "L", "(", "1", "0", ",", "2", ")">>,
   <<"N", "U", "M", "E", "R", "I", "C">>,
   <<"D", "A", "T", "E">>,
   <<"J", "S", "O", "N">>}

InitType ==
  /\ InitEngine
  /\ options = [skipErrors |-> FALSE, createIndexes |-> TRUE,
                validateData |-> TRUE, maxRetries |-> 3]
  /\ lim = [runs |-> 0, tables |-> 0, batches |-> 0, rows |-> 0,
            observe |-> FALSE]
  /\ me = MEInit
  /\ conv = ConvInit
  /\ \E a \in SimTypes : \E b \in SimTypes :
       mapper = [MapperInit EXCEPT !.input = <<"types", a, b>>]

\* calculateTypeSimilarity applied to the two type strings
ApplyTypeSimilarity ==
  /\ mapper.pc = "idle"
  /\ mapper.input[1] = "types"
  /\ mapper' = [mapper EXCEPT !.pc = "returned",
       !.output = <<calculateTypeSimilarity(mapper.input[2], mapper.input[3])>>]
  /\ UNCHANGED <<imeVars, me, conv>>

NextType == ApplyTypeSimilarity

SpecType == InitType /\ [][NextType]_vars

\* ------------------------------------------------------------------------
\* Part III : IntelligentMappingEngine, analyzeSchemas
\* ------------------------------------------------------------------------

\* array.find(t => t.name === name): the first table of that name, or <<>>
RECURSIVE FindTable(_, _, _)
FindTable(schema, name, k) ==
  IF k > Len(schema) THEN <<>>
  ELSE IF schema[k].name = name THEN schema[k]
  ELSE FindTable(schema, name, k + 1)

\* findBestColumnMatch: the first target column of the highest confidence
\* above 0.5, or <<>> (null)
RECURSIVE findBestColumnMatch(_, _, _, _)
findBestColumnMatch(sourceColumn, targetColumns, k, bestMatch) ==
  IF k > Len(targetColumns) THEN bestMatch
  ELSE LET confidence == ColumnPairSimilarity(sourceColumn, targetColumns[k])
           better == /\ QGt(confidence, Q(5, 10))
                     /\ (bestMatch = <<>> \/ QGt(confidence, bestMatch.confidence))
       IN findBestColumnMatch(sourceColumn, targetColumns, k + 1,
            IF better
            THEN [column |-> targetColumns[k], confidence |-> confidence]
            ELSE bestMatch)

\* generateColumnMappings: one ColumnMapping per source column that has a
\* best match (the field transformation is left out)
RECURSIVE generateColumnMappings(_, _, _)
generateColumnMappings(sourceColumns, targetColumns, k) ==
  IF k > Len(sourceColumns) THEN <<>>
  ELSE LET sourceCol == sourceColumns[k]
           bestMatch == findBestColumnMatch(sourceCol, targetColumns, 1, <<>>)
           rest == generateColumnMappings(sourceColumns, targetColumns, k + 1)
       IN IF bestMatch # <<>>
          THEN <<[id |-> sourceCol.name \o <<"_", "t", "o", "_">>
                           \o bestMatch.column.name,
                  sourceColumn |-> sourceCol.name,
                  sourceType |-> sourceCol.type,
                  targetColumn |-> bestMatch.column.name,
                  targetType |-> bestMatch.column.type,
                  confidence |-> QMul(bestMatch.confidence, Q(100, 1)),
                  autoDetected |-> TRUE]>> \o rest
          ELSE rest

\* this.tableMappings.set(mappingId, mapping): key is the key of the Map the
\* object is stored under
MapSet(tableMappings, mapping) ==
  {x \in tableMappings : x.key # mapping.key} \cup {mapping}

\* createTableMapping(sourceTable, targetTable, autoDetected) on engine m;
\* both tables are in the schemas when generateTableSuggestions calls it
createTableMapping(m, sourceTable, targetTable, autoDetected) ==
  LET sourceTableInfo == FindTable(m.sourceSchema, sourceTable, 1)
      targetTableInfo == FindTable(m.targetSchema, targetTable, 1)
      mapping ==
        [key |-> sourceTable \o <<"_", "t", "o", "_">> \o targetTable,
         id |-> sourceTable \o <<"_", "t", "o", "_">> \o targetTable,
         sourceTable |-> sourceTable,
         targetTable |-> targetTable,
         columnMappings |-> generateColumnMappings(sourceTableInfo.columns,
                                                   targetTableInfo.columns, 1),
         enabled |-> TRUE,
         confidence |->
           IF autoDetected
           THEN QMul(calculateTableSimilarity(sourceTableInfo,
                                              targetTableInfo), Q(100, 1))
           ELSE Q(100, 1),
         mappingType |-> "one-to-one"]
  IN [m EXCEPT !.tableMappings = MapSet(@, mapping)]

\* suggestions.sort((a, b) => b.confidence - a.confidence): stable, by
\* descending confidence
RECURSIVE InsertSorted(_, _)
InsertSorted(sorted, x) ==
  IF sorted = <<>> THEN <<x>>
  ELSE IF QGt(x.confidence, Head(sorted).confidence) THEN <<x>> \o sorted
  ELSE <<Head(sorted)>> \o InsertSorted(Tail(sorted), x)
RECURSIVE SortSuggestions(_, _)
SortSuggestions(list, k) ==
  IF k = 0 THEN <<>>
  ELSE InsertSorted(SortSuggestions(list, k - 1), list[k])

\* findTableSuggestions: the loop over the target tables (244-256)
RECURSIVE TableSuggestionsFrom(_, _, _)
TableSuggestionsFrom(sourceTable, targetSchema, k) ==
  IF k > Len(targetSchema) THEN <<>>
  ELSE LET similarity == calculateTableSimilarity(sourceTable, targetSchema[k])
           rest == TableSuggestionsFrom(sourceTable, targetSchema, k + 1)
       IN IF QGt(similarity, Q(3, 10))
          THEN <<[sourceItem |-> sourceTable.name,
                  targetItem |-> targetSchema[k].name,
                  confidence |-> similarity]>> \o rest
          ELSE rest

findTableSuggestions(sourceTable, targetSchema) ==
  LET list == TableSuggestionsFrom(sourceTable, targetSchema, 1)
  IN SortSuggestions(list, Len(list))

\* if (bestMatch.confidence >= this.config.similarityThreshold) (line 223)
AutoAcceptAny(confidence, threshold) == TRUE
AutoAccept(confidence, threshold) == QGe(confidence, threshold)

\* the tables the schemas of the two adapters are drawn from
MapColumnLists ==
  {<<>>,
   <<[name |-> <<"I", "D">>, type |-> <<"i", "n", "t", "e", "g", "e", "r">>],
     [name |-> <<"n", "o">>, type |-> <<"C", "H", "A", "R">>]>>}
MapTables ==
  [name : {<<"a">>, <<"A", "b">>, <<"c", "d">>}, columns : MapColumnLists]

\* schemas: at most MaxSchemaTables tables, no two of the same name
MapSchemas ==
  {s \in SeqsUpTo(MapTables, MaxSchemaTables) :
     \A j, k \in DOMAIN s : j # k => s[j].name # s[k].name}

MapConfigs ==
  [similarityThreshold : {Q(0, 1), Q(1, 2), Q(7, 10), Q(1, 1)},
   autoMapTables : {TRUE}]
  \cup {[MapperDefaults EXCEPT !.autoMapTables = FALSE]}

\* the schemas of the end-to-end scenario: CUSTOMERS (ID INTEGER,
\* NAME VARCHAR(50)) and clientes (id INTEGER, nome VARCHAR(60))
CustomersSchema ==
  <<[name |-> <<"C", "U", "S", "T", "O", "M", "E", "R", "S">>,
     columns |->
       <<[name |-> <<"I", "D">>,
          type |-> <<"I", "N", "T", "E", "G", "E", "R">>],
         [name |-> <<"N", "A", "M", "E">>,
          type |-> <<"V", "A", "R", "C", "H", "A", "R", "(", "5", "0", ")">>]>>]>>
ClientesSchema ==
  <<[name |-> <<"c", "l", "i", "e", "n", "t", "e", "s">>,
     columns |->
       <<[name |-> <<"i", "d">>,
          type |-> <<"I", "N", "T", "E", "G", "E", "R">>],
         [name |-> <<"n", "o", "m", "e">>,
          type |-> <<"V", "A", "R", "C", "H", "A", "R", "(", "6", "0", ")">>]>>]>>

InitMap ==
  /\ InitEngine
  /\ options = [skipErrors |-> FALSE, createIndexes |-> TRUE,
                validateData |-> TRUE, maxRetries |-> 3]
  /\ lim = [runs |-> 0, tables |-> 0, batches |-> 0, rows |-> 0,
            observe |-> FALSE]
  /\ me = MEInit
  /\ conv = ConvInit
  /\ \E c \in MapConfigs : mapper = MapperIdle(c, <<>>, <<>>)

\* analyzeSchemas() up to the await of sourceAdapter.getSchema()
AnalyzeSchemas ==
  /\ mapper.pc = "idle"
  /\ mapper.input = <<>>
  /\ mapper' = [mapper EXCEPT !.pc = "getSchema.source"]
  /\ UNCHANGED <<imeVars, me, conv>>

\* sourceAdapter.getSchema() settles with some schema; a rejection is
\* rethrown (209-212)
GetSourceSchema ==
  /\ mapper.pc = "getSchema.source"
  /\ \/ \E s \in MapSchemas \cup {CustomersSchema} :
          mapper' = [mapper EXCEPT !.pc = "getSchema.target", !.source = s]
     \/ mapper' = [mapper EXCEPT !.pc = "failed"]
  /\ UNCHANGED <<imeVars, me, conv>>

\* targetAdapter.getSchema() settles: the schemas are stored, and with
\* autoMapTables generateTableSuggestions() starts (lines 179-199, 215)
GetTargetSchema ==
  /\ mapper.pc = "getSchema.target"
  /\ \/ \E t \in MapSchemas \cup {ClientesSchema} :
          LET m1 == [mapper EXCEPT !.target = t,
                                   !.sourceSchema = mapper.source,
                                   !.targetSchema = t]
          IN IF mapper.config.autoMapTables
             THEN mapper' = [m1 EXCEPT !.pc = "suggest", !.suggestions = <<>>,
                                       !.i = 1]
             ELSE mapper' = [m1 EXCEPT !.pc = "completed"]
     \/ mapper' = [mapper EXCEPT !.pc = "failed"]
  /\ UNCHANGED <<imeVars, me, conv>>

\* generateTableSuggestions: one turn of the loop over the source tables
\* (217-231), or its end and the end of analyzeSchemas
SuggestTable ==
  /\ mapper.pc = "suggest"
  /\ IF mapper.i > Len(mapper.sourceSchema)
     THEN mapper' = [mapper EXCEPT !.pc = "completed"]
     ELSE LET sourceTable == mapper.sourceSchema[mapper.i]
              suggestions == findTableSuggestions(sourceTable,
                                                  mapper.targetSchema)
              bestMatch == suggestions[1]
              m1 == IF suggestions # <<>>
                       /\ AutoAccept(bestMatch.confidence,
                                     mapper.config.similarityThreshold)
                    THEN createTableMapping(mapper, sourceTable.name,
                                            bestMatch.targetItem, TRUE)
                    ELSE mapper
          IN mapper' = [m1 EXCEPT !.suggestions = @ \o suggestions,
                                  !.i = @ + 1]
  /\ UNCHANGED <<imeVars, me, conv>>

NextMap ==
  \/ AnalyzeSchemas
  \/ GetSourceSchema
  \/ GetTargetSchema
  \/ SuggestTable

SpecMap == InitMap /\ [][NextMap]_vars

\* ------------------------------------------------------------------------
\* Part III : IntelligentMappingEngine, the mapping repository
\* ------------------------------------------------------------------------

\* array.join(separator)
RECURSIVE Join(_, _)
Join(array, separator) ==
  IF array = <<>> THEN <<>>
  ELSE IF Len(array) = 1 THEN array[1]
  ELSE array[1] \o separator \o Join(Tail(array), separator)

\* what an operation of the repository started from and ended in: result is
\* what it returned (for the create operations the keys of the mappings)
RepoOutcome(op, m, threw, result) ==
  [op |-> op, threw |-> threw, before |-> m.tableMappings,
   result |-> result]

\* the columns of the source tables named, each prefixed with the name of
\* its table; tables that are not in the source schema are passed over
RECURSIVE allSourceColumns(_, _, _)
allSourceColumns(m, sourceTables, k) ==
  IF k > Len(sourceTables) THEN <<>>
  ELSE LET sourceTableInfo == FindTable(m.sourceSchema, sourceTables[k], 1)
           rest == allSourceColumns(m, sourceTables, k + 1)
       IN IF sourceTableInfo # <<>>
          THEN [i \in DOMAIN sourceTableInfo.columns |->
                  [sourceTableInfo.columns[i] EXCEPT
                     !.name = sourceTables[k] \o <<".">> \o @]] \o rest
          ELSE rest

\* the TableMapping createManyToOneMapping stores; the target table is in
\* the target schema (joinConditions are left out)
ManyToOneMapping(m, sourceTables, targetTable) ==
  LET targetTableInfo == FindTable(m.targetSchema, targetTable, 1)
      mappingId == Join(sourceTables, <<"_">>) \o <<"_", "t", "o", "_">> \o targetTable
  IN [key |-> mappingId,
      id |-> mappingId,
      sourceTable |-> Join(sourceTables, <<",">>),
      targetTable |-> targetTable,
      columnMappings |->
        generateColumnMappings(allSourceColumns(m, sourceTables, 1),
                               targetTableInfo.columns, 1),
      enabled |-> TRUE,
      confidence |-> Q(85, 1),
      mappingType |-> "many-to-one"]

\* the TableMapping createOneToManyMapping stores for one target table that
\* is in the target schema (filterConditions are left out)
OneToManyMapping(m, sourceTable, targetTable, splitRules) ==
  LET sourceTableInfo == FindTable(m.sourceSchema, sourceTable, 1)
      targetTableInfo == FindTable(m.targetSchema, targetTable, 1)
      mappingId == sourceTable \o <<"_", "t", "o", "_">> \o targetTable \o <<"_", "s", "p", "l", "i", "t">>
      relevantColumns == IF targetTable \in DOMAIN splitRules
                         THEN splitRules[targetTable] ELSE {}
      filteredSourceColumns ==
        SelectSeq(sourceTableInfo.columns,
                  LAMBDA col : col.name \in relevantColumns)
  IN [key |-> mappingId,
      id |-> mappingId,
      sourceTable |-> sourceTable,
      targetTable |-> targetTable,
      columnMappings |->
        generateColumnMappings(filteredSourceColumns,
                               targetTableInfo.columns, 1),
      enabled |-> TRUE,
      confidence |-> Q(80, 1),
      mappingType |-> "one-to-many"]

\* the loop of createOneToManyMapping over the target tables from index k
\* on: the mappings it stores, in order
RECURSIVE OneToManyMappings(_, _, _, _, _)
OneToManyMappings(m, sourceTable, targetTables, splitRules, k) ==
  IF k > Len(targetTables) THEN <<>>
  ELSE LET rest == OneToManyMappings(m, sourceTable, targetTables,
                                     splitRules, k + 1)
       IN IF FindTable(m.targetSchema, targetTables[k], 1) = <<>> THEN rest
          ELSE <<OneToManyMapping(m, sourceTable, targetTables[k],
                                  splitRules)>> \o rest

\* tableMappings.set for each mapping of a list, in order
RECURSIVE MapSetAll(_, _)
MapSetAll(tableMappings, mappings) ==
  IF mappings = <<>> THEN tableMappings
  ELSE MapSetAll(MapSet(tableMappings, Head(mappings)), Tail(mappings))

\* sourceTables.length < 2 (line 439) and targetTables.length < 2 (line 499)
TooFewNever(tables) == FALSE
TooFew(tables) == Len(tables) < 2

\* the errors of validateMappings(), as records
validateMappings(m) ==
  UNION {
    LET sourceTable == FindTable(m.sourceSchema, mapping.sourceTable, 1)
        targetTable == FindTable(m.targetSchema, mapping.targetTable, 1)
        sourceExists == sourceTable # <<>>
        targetExists == targetTable # <<>>
        HasColumn(table, name) ==
          \E k \in DOMAIN table.columns : table.columns[k].name = name
    IN (IF sourceExists THEN {}
        ELSE {[error |-> "Tabela de origem não encontrada",
               key |-> mapping.key, name |-> mapping.sourceTable]})
       \cup
       (IF targetExists THEN {}
        ELSE {[error |-> "Tabela de destino não encontrada",
               key |-> mapping.key, name |-> mapping.targetTable]})
       \cup
       {[error |-> "Coluna de origem não encontrada", key |-> mapping.key,
         name |-> mapping.columnMappings[k].sourceColumn] :
          k \in {j \in DOMAIN mapping.columnMappings :
                   /\ sourceExists
                   /\ ~HasColumn(sourceTable,
                                 mapping.columnMappings[j].sourceColumn)}}
       \cup
       {[error |-> "Coluna de destino não encontrada", key |-> mapping.key,
         name |-> mapping.columnMappings[k].targetColumn] :
          k \in {j \in DOMAIN mapping.columnMappings :
                   /\ targetExists
                   /\ ~HasColumn(targetTable,
                                 mapping.columnMappings[j].targetColumn)}}
    : mapping \in m.tableMappings}

\* exportMappingConfig(): the fields importMappingConfig reads
exportMappingConfig(m) ==
  [config |-> m.config, mappings |-> m.tableMappings]

\* importMappingConfig(config) into engine m: the repository is cleared and
\* each exported mapping is stored under its id; of several mappings of one
\* id one is left
importMappingConfig(m, config) ==
  {[m EXCEPT !.tableMappings = kept, !.config = config.config] :
     kept \in {t \in SUBSET {[x EXCEPT !.key = x.id] : x \in config.mappings} :
                 /\ \A x \in config.mappings : \E y \in t : y.id = x.id
                 /\ \A x, y \in t : x.id = y.id => x = y}}

\* generateFirebirdDDL(): the CREATE TABLE statements of the loop over the
\* stored mappings, one on the first mapping of each target table that is in
\* the target schema (the statements for generators and indexes depend on
\* transformations and primary keys and are left out)
RECURSIVE DdlStatements(_, _, _)
DdlStatements(m, mappings, processedTables) ==
  IF mappings = {} THEN <<>>
  ELSE LET mapping == CHOOSE x \in mappings : TRUE
           rest == mappings \ {mapping}
       IN IF \/ mapping.targetTable \in processedTables
             \/ FindTable(m.targetSchema, mapping.targetTable, 1) = <<>>
          THEN DdlStatements(m, rest, processedTables)
          ELSE <<[statement |-> "CREATE TABLE",
                  table |-> mapping.targetTable]>>
                 \o DdlStatements(m, rest,
                      processedTables \cup {mapping.targetTable})
generateFirebirdDDL(m) == DdlStatements(m, m.tableMappings, {})

\* the analyzed schemas of the repository scenarios: source tables A, B and
\* A_B, target tables x and y
RepoSource ==
  <<[name |-> <<"A">>, columns |-> <<[name |-> <<"i", "d">>, type |-> <<"I", "N", "T", "E", "G", "E", "R">>],
                                 [name |-> <<"n", "a", "m", "e">>, type |-> <<"V", "A", "R", "C", "H", "A", "R">>]>>],
    [name |-> <<"B">>, columns |-> <<[name |-> <<"i", "d">>, type |-> <<"I", "N", "T", "E", "G", "E", "R">>],
                                 [name |-> <<"t", "o", "t", "a", "l">>, type |-> <<"N", "U", "M", "E", "R", "I", "C">>]>>],
    [name |-> <<"A", "_", "B">>, columns |-> <<[name |-> <<"i", "d">>, type |-> <<"I", "N", "T", "E", "G", "E", "R">>]>>]>>
RepoTarget ==
  <<[name |-> <<"x">>, columns |-> <<[name |-> <<"i", "d">>, type |-> <<"I", "N", "T", "E", "G", "E", "R">>],
                                 [name |-> <<"n", "a", "m", "e">>, type |-> <<"V", "A", "R", "C", "H", "A", "R">>]>>],
    [name |-> <<"y">>, columns |-> <<[name |-> <<"i", "d">>, type |-> <<"I", "N", "T", "E", "G", "E", "R">>],
                                 [name |-> <<"t", "o", "t", "a", "l">>, type |-> <<"N", "U", "M", "E", "R", "I", "C">>]>>]>>

\* arguments of the create operations: tables of the schemas and tables
\* that are in neither (Z, w)
RepoSourceNames == {<<"A">>, <<"B">>, <<"A", "_", "B">>, <<"Z">>}
RepoTargetNames == {<<"x">>, <<"y">>, <<"w">>}
RepoSourceLists == {<<>>, <<<<"A">>>>, <<<<"A">>, <<"B">>>>, <<<<"A">>, <<"Z">>>>}
RepoTargetLists == {<<>>, <<<<"x">>>>, <<<<"x">>, <<"y">>>>, <<<<"x">>, <<"w">>>>}
RepoSplitRules ==
  {[t \in {<<"x">>} |-> {<<"i", "d">>, <<"n", "a", "m", "e">>}],
   [t \in {<<"x">>, <<"y">>} |-> {<<"i", "d">>}]}

InitRepo ==
  /\ InitEngine
  /\ options = [skipErrors |-> FALSE, createIndexes |-> TRUE,
                validateData |-> TRUE, maxRetries |-> 3]
  /\ lim = [runs |-> 0, tables |-> 0, batches |-> 0, rows |-> 0,
            observe |-> FALSE]
  /\ me = MEInit
  /\ conv = ConvInit
  /\ mapper = [MapperInit EXCEPT !.sourceSchema = RepoSource,
                                 !.targetSchema = RepoTarget,
                                 !.source = RepoSource,
                                 !.target = RepoTarget,
                                 !.pc = "completed"]

\* the engine has analyzed its schemas and fewer than MaxOps operations
\* have changed its repository
RepoOpen == mapper.pc = "completed" /\ mapper.i < MaxOps

\* createTableMapping(sourceTable, targetTable) called by the user
RepoCreateTable ==
  /\ RepoOpen
  /\ \E sourceTable \in RepoSourceNames : \E targetTable \in RepoTargetNames :
       IF \/ FindTable(mapper.sourceSchema, sourceTable, 1) = <<>>
          \/ FindTable(mapper.targetSchema, targetTable, 1) = <<>>
       THEN mapper' = [mapper EXCEPT !.i = @ + 1,
              !.input = <<sourceTable, targetTable>>,
              !.output = RepoOutcome("createTableMapping", mapper, TRUE, {})]
       ELSE LET m1 == createTableMapping(mapper, sourceTable, targetTable,
                                         FALSE)
            IN mapper' = [m1 EXCEPT !.i = @ + 1,
                 !.input = <<sourceTable, targetTable>>,
                 !.output = RepoOutcome("createTableMapping", mapper, FALSE,
                              {sourceTable \o <<"_", "t", "o", "_">> \o targetTable})]
  /\ UNCHANGED <<imeVars, me, conv>>

\* createManyToOneMapping(sourceTables, targetTable, joinConditions)
RepoCreateManyToOne ==
  /\ RepoOpen
  /\ \E sourceTables \in RepoSourceLists : \E targetTable \in {<<"x">>, <<"w">>} :
       IF \/ TooFew(sourceTables)
          \/ FindTable(mapper.targetSchema, targetTable, 1) = <<>>
       THEN mapper' = [mapper EXCEPT !.i = @ + 1,
              !.input = <<sourceTables, targetTable>>,
              !.output = RepoOutcome("createManyToOneMapping", mapper, TRUE,
                                     {})]
       ELSE LET mapping == ManyToOneMapping(mapper, sourceTables, targetTable)
            IN mapper' = [mapper EXCEPT !.i = @ + 1,
                 !.tableMappings = MapSet(@, mapping),
                 !.input = <<sourceTables, targetTable>>,
                 !.output = RepoOutcome("createManyToOneMapping", mapper,
                                        FALSE, {mapping.key})]
  /\ UNCHANGED <<imeVars, me, conv>>

\* createOneToManyMapping(sourceTable, targetTables, splitRules)
RepoCreateOneToMany ==
  /\ RepoOpen
  /\ \E sourceTable \in {<<"A">>, <<"Z">>} : \E targetTables \in RepoTargetLists :
     \E splitRules \in RepoSplitRules :
       IF \/ TooFew(targetTables)
          \/ FindTable(mapper.sourceSchema, sourceTable, 1) = <<>>
       THEN mapper' = [mapper EXCEPT !.i = @ + 1,
              !.input = <<sourceTable, targetTables>>,
              !.output = RepoOutcome("createOneToManyMapping", mapper, TRUE,
                                     {})]
       ELSE LET mappings == OneToManyMappings(mapper, sourceTable,
                                              targetTables, splitRules, 1)
            IN mapper' = [mapper EXCEPT !.i = @ + 1,
                 !.tableMappings = MapSetAll(@, mappings),
                 !.input = <<sourceTable, targetTables>>,
                 !.output = RepoOutcome("createOneToManyMapping", mapper,
                              FALSE,
                              {mappings[k].key : k \in DOMAIN mappings})]
  /\ UNCHANGED <<imeVars, me, conv>>

\* updateTableMapping(id, updates): Object.assign on the stored object;
\* updates is { enabled: ... } or { id: ... }, the id that of another stored
\* mapping or one that no mapping has
RepoUpdate ==
  /\ RepoOpen
  /\ \E x \in mapper.tableMappings :
     \E updated \in {[x EXCEPT !.enabled = ~@], [x EXCEPT !.id = <<"M">>]}
                      \cup {[x EXCEPT !.id = y.id] :
                              y \in mapper.tableMappings \ {x}} :
       mapper' = [mapper EXCEPT !.i = @ + 1,
         !.tableMappings = (@ \ {x}) \cup {updated},
         !.input = <<x.key>>,
         !.output = RepoOutcome("updateTableMapping", mapper, FALSE, {})]
  /\ UNCHANGED <<imeVars, me, conv>>

\* removeTableMapping(id) of a stored mapping
RepoRemove ==
  /\ RepoOpen
  /\ \E x \in mapper.tableMappings :
       mapper' = [mapper EXCEPT !.i = @ + 1,
         !.tableMappings = @ \ {x},
         !.input = <<x.key>>,
         !.output = RepoOutcome("removeTableMapping", mapper, FALSE, {})]
  /\ UNCHANGED <<imeVars, me, conv>>

\* importMappingConfig(exportMappingConfig()), into the engine itself or
\* into an engine just constructed; mapper is the importing engine from
\* then on
RepoRoundTrip ==
  /\ mapper.pc = "completed"
  /\ \E importer \in {mapper, [MapperInit EXCEPT !.pc = "completed"]} :
     \E m1 \in importMappingConfig(importer, exportMappingConfig(mapper)) :
       mapper' = [m1 EXCEPT !.pc = "returned",
         !.input = <<>>,
         !.output = RepoOutcome("importMappingConfig", mapper, FALSE, {})]
  /\ UNCHANGED <<imeVars, me, conv>>

\* generateFirebirdDDL() returns
RepoGenerateDDL ==
  /\ mapper.pc = "completed"
  /\ mapper' = [mapper EXCEPT !.pc = "returned",
       !.input = <<>>,
       !.output = RepoOutcome("generateFirebirdDDL", mapper, FALSE,
                              generateFirebirdDDL(mapper))]
  /\ UNCHANGED <<imeVars, me, conv>>

NextRepo ==
  \/ RepoCreateTable
  \/ RepoCreateManyToOne
  \/ RepoCreateOneToMany
  \/ RepoUpdate
  \/ RepoRemove
  \/ RepoRoundTrip
  \/ RepoGenerateDDL

SpecRepo == InitRepo /\ [][NextRepo]_vars


\* ------------------------------------------------------------------------
\* Part IV : DataConverter, pure functions
\* ------------------------------------------------------------------------

Digits == <<"0", "1", "2", "3", "4", "5", "6", "7", "8", "9">>
DigitOf == [c \in {Digits[i] : i \in DOMAIN Digits} |->
              (CHOOSE i \in DOMAIN Digits : Digits[i] = c) - 1]
IsDigit(c) == c \in DOMAIN DigitOf

\* the index after the run of digits of u that starts at index k
RECURSIVE DigitsEnd(_, _)
DigitsEnd(u, k) ==
  IF k <= Len(u) /\ IsDigit(u[k]) THEN DigitsEnd(u, k + 1) ELSE k

\* Number(digits) of a string of digits
RECURSIVE ParseNat(_)
ParseNat(ds) ==
  IF ds = <<>> THEN 0
  ELSE ParseNat(SubSeq(ds, 1, Len(ds) - 1)) * 10 + DigitOf[ds[Len(ds)]]

\* the decimal digits of a natural number, at least width of them
RECURSIVE NatToString(_, _)
NatToString(n, width) ==
  IF n < 10 /\ width <= 1 THEN <<Digits[n + 1]>>
  ELSE NatToString(n \div 10, width - 1) \o <<Digits[(n % 10) + 1]>>

\* u.replace(/\(\d+\)/g, '') from index k on
RECURSIVE RemoveLength(_, _)
RemoveLength(u, k) ==
  IF k > Len(u) THEN <<>>
  ELSE LET j == DigitsEnd(u, k + 1)
       IN IF u[k] = "(" /\ j > k + 1 /\ j <= Len(u) /\ u[j] = ")"
          THEN RemoveLength(u, j + 1)
          ELSE <<u[k]>> \o RemoveLength(u, k + 1)

\* u.replace(/\(\d+,\d+\)/g, '') from index k on
RECURSIVE RemovePrecision(_, _)
RemovePrecision(u, k) ==
  IF k > Len(u) THEN <<>>
  ELSE LET j == DigitsEnd(u, k + 1)
           j2 == DigitsEnd(u, j + 1)
       IN IF /\ u[k] = "(" /\ j > k + 1 /\ j <= Len(u) /\ u[j] = ","
             /\ j2 > j + 1 /\ j2 <= Len(u) /\ u[j2] = ")"
          THEN RemovePrecision(u, j2 + 1)
          ELSE <<u[k]>> \o RemovePrecision(u, k + 1)

\* u.replace(/FB_TYPE_\d+/g, 'VARCHAR') from index k on
RECURSIVE ReplaceFbType(_, _)
ReplaceFbType(u, k) ==
  IF k > Len(u) THEN <<>>
  ELSE LET j == DigitsEnd(u, k + 8)
       IN IF /\ k + 7 <= Len(u)
             /\ SubSeq(u, k, k + 7) = <<"F", "B", "_", "T", "Y", "P", "E", "_">>
             /\ j > k + 8
          THEN <<"V", "A", "R", "C", "H", "A", "R">> \o ReplaceFbType(u, j)
          ELSE <<u[k]>> \o ReplaceFbType(u, k + 1)

\* normalizeType(type)
normalizeType(type) ==
  IF type = <<>> THEN <<"V", "A", "R", "C", "H", "A", "R">>
  ELSE trim(ReplaceFbType(RemovePrecision(RemoveLength(toUpperCase(type), 1),
                                          1), 1))

textTypes == <<<<"V", "A", "R", "C", "H", "A", "R">>, <<"T", "E", "X", "T">>, <<"C", "H", "A", "R">>, <<"S", "T", "R", "I", "N", "G">>, <<"C", "S", "T", "R", "I", "N", "G">>>>
numberTypes ==
  <<<<"I", "N", "T", "E", "G", "E", "R">>, <<"B", "I", "G", "I", "N", "T">>, <<"S", "M", "A", "L", "L", "I", "N", "T">>, <<"N", "U", "M", "E", "R", "I", "C">>, <<"R", "E", "A", "L">>, <<"D", "O", "U", "B", "L", "E">>, <<"F", "L", "O", "A", "T">>>>
dateTypes == <<<<"D", "A", "T", "E">>, <<"T", "I", "M", "E", "S", "T", "A", "M", "P">>, <<"D", "A", "T", "E", "T", "I", "M", "E">>, <<"T", "I", "M", "E">>>>
\* list.includes(x)
InList(list, x) == \E k \in DOMAIN list : list[k] = x

\* getConversionType(sourceType, targetType)
getConversionType(sourceType, targetType) ==
  LET sourceNorm == normalizeType(sourceType)
      targetNorm == normalizeType(targetType)
  IN IF sourceNorm = targetNorm THEN "DIRECT"
     ELSE IF InList(textTypes, sourceNorm) /\ InList(dateTypes, targetNorm)
     THEN "TEXT_TO_DATE"
     ELSE IF InList(textTypes, sourceNorm) /\ InList(numberTypes, targetNorm)
     THEN "TEXT_TO_NUMBER"
     ELSE IF InList(numberTypes, sourceNorm) /\ InList(textTypes, targetNorm)
     THEN "NUMBER_TO_TEXT"
     ELSE IF InList(dateTypes, sourceNorm) /\ InList(textTypes, targetNorm)
     THEN "DATE_TO_TEXT"
     ELSE IF InList(numberTypes, sourceNorm) /\ InList(numberTypes, targetNorm)
     THEN "NUMBER_TO_NUMBER"
     ELSE IF InList(textTypes, sourceNorm) /\ InList(textTypes, targetNorm)
     THEN "TEXT_TO_TEXT"
     ELSE "CUSTOM_CONVERSION"

\* what a function call ends in: a returned value or a thrown Error
Return(v) == [thrown |-> FALSE, value |-> v]
Throw(message) == [thrown |-> TRUE, message |-> message]

\* !value || typeof value !== 'string'
NotText(value) == value.t # "string" \/ value.s = <<>>

\* a Date is the UTC calendar date and hour of its instant, or Invalid
Invalid == [date |-> <<>>, hour |-> 0]
IsLeap(y) == (y % 4 = 0 /\ y % 100 # 0) \/ y % 400 = 0
DaysInMonth(y, m) ==
  IF m = 2 THEN (IF IsLeap(y) THEN 29 ELSE 28)
  ELSE IF m \in {4, 6, 9, 11} THEN 30 ELSE 31
PrevDay(date) ==
  IF date[3] > 1 THEN <<date[1], date[2], date[3] - 1>>
  ELSE IF date[2] > 1
  THEN <<date[1], date[2] - 1, DaysInMonth(date[1], date[2] - 1)>>
  ELSE <<date[1] - 1, 12, 31>>

\* new Date(year, month - 1, day): midnight of that day in local time, which
\* is tz hours ahead of UTC
LocalMidnight(date, tz) ==
  IF tz > 0 THEN [date |-> PrevDay(date), hour |-> 24 - tz]
  ELSE [date |-> date, hour |-> 0 - tz]

\* date.getFullYear() === year && date.getMonth() === month - 1 &&
\* date.getDate() === day: the fields did not roll over, and the year was
\* not taken for 1900 + year
FieldsKept(year, month, day) ==
  /\ year >= 100
  /\ month \in 1..12
  /\ day \in 1..DaysInMonth(year, month)

\* date.toISOString()
toISOString(date) ==
  NatToString(date.date[1], 4) \o <<"-">> \o NatToString(date.date[2], 2)
    \o <<"-">> \o NatToString(date.date[3], 2) \o <<"T">>
    \o NatToString(date.hour, 2) \o <<":", "0", "0", ":", "0", "0", ".", "0", "0", "0", "Z">>

\* s.split('T')[0]
RECURSIVE BeforeT(_)
BeforeT(s) ==
  IF s = <<>> \/ Head(s) = "T" THEN <<>> ELSE <<Head(s)>> \o BeforeT(Tail(s))

\* the regular expressions of dateFormats: d stands for \d, groups are the
\* index ranges of the three capture groups
dateFormats ==
  <<[pattern |-> <<"d", "d", "d", "d", "-", "d", "d", "-", "d", "d">>, groups |-> <<<<1, 4>>, <<6, 7>>, <<9, 10>>>>,
     yearFirst |-> TRUE],
    [pattern |-> <<"d", "d", "/", "d", "d", "/", "d", "d", "d", "d">>, groups |-> <<<<1, 2>>, <<4, 5>>, <<7, 10>>>>,
     yearFirst |-> FALSE],
    [pattern |-> <<"d", "d", "-", "d", "d", "-", "d", "d", "d", "d">>, groups |-> <<<<1, 2>>, <<4, 5>>, <<7, 10>>>>,
     yearFirst |-> FALSE],
    [pattern |-> <<"d", "d", "d", "d", "d", "d", "d", "d">>, groups |-> <<<<1, 4>>, <<5, 6>>, <<7, 8>>>>,
     yearFirst |-> TRUE],
    [pattern |-> <<"d", "d", "d", "d", "d", "d", "d", "d">>, groups |-> <<<<1, 2>>, <<3, 4>>, <<5, 8>>>>,
     yearFirst |-> FALSE]>>

\* cleanValue.match(format)
MatchesFormat(s, format) ==
  /\ Len(s) = Len(format.pattern)
  /\ \A k \in DOMAIN s :
       IF format.pattern[k] = "d" THEN IsDigit(s[k])
       ELSE s[k] = format.pattern[k]

\* match.map(Number), as <<year, month, day>>
MatchedDate(s, format) ==
  LET g(i) == ParseNat(SubSeq(s, format.groups[i][1], format.groups[i][2]))
  IN IF format.yearFirst THEN <<g(1), g(2), g(3)>> ELSE <<g(3), g(2), g(1)>>

\* the loop over dateFormats from format k on: the first valid date, or <<>>
RECURSIVE FirstValidDate(_, _)
FirstValidDate(s, k) ==
  IF k > Len(dateFormats) THEN <<>>
  ELSE IF /\ MatchesFormat(s, dateFormats[k])
          /\ LET ymd == MatchedDate(s, dateFormats[k])
             IN FieldsKept(ymd[1], ymd[2], ymd[3])
  THEN MatchedDate(s, dateFormats[k])
  ELSE FirstValidDate(s, k + 1)

\* new Date(cleanValue): the date-only ISO form is UTC midnight of that day;
\* a string without a digit is no date; what any other string parses to is
\* left to the implementation
DateParse(s) ==
  IF /\ MatchesFormat(s, dateFormats[1])
     /\ LET ymd == MatchedDate(s, dateFormats[1])
        IN ymd[2] \in 1..12 /\ ymd[3] \in 1..DaysInMonth(ymd[1], ymd[2])
  THEN {[date |-> MatchedDate(s, dateFormats[1]), hour |-> 0]}
  ELSE IF \A k \in DOMAIN s : ~IsDigit(s[k]) THEN {Invalid}
  ELSE {Invalid, [date |-> <<2001, 3, 1>>, hour |-> 0]}

\* convertTextToDate(value, targetType): the possible outcomes
convertTextToDate(value, targetType, tz) ==
  IF NotText(value)
  THEN {Throw(<<"Valor inválido para conversão de data">>)}
  ELSE
    LET cleanValue == trim(value.s)
        ymd == FirstValidDate(cleanValue, 1)
        date == LocalMidnight(ymd, tz)
    IN IF ymd # <<>>
       THEN {Return(Str(
               IF includes(targetType, <<"T", "I", "M", "E", "S", "T", "A", "M", "P">>) THEN toISOString(date)
               ELSE IF includes(targetType, <<"T", "I", "M", "E">>) THEN <<"0", "0", ":", "0", "0", ":", "0", "0">>
               ELSE BeforeT(toISOString(date))))}
       ELSE {IF directDate = Invalid
             THEN Throw(<<"Não foi possível converter \"", value.s,
                          "\" para data">>)
             ELSE Return(Str(
                    IF includes(targetType, <<"T", "I", "M", "E", "S", "T", "A", "M", "P">>)
                    THEN toISOString(directDate)
                    ELSE BeforeT(toISOString(directDate)))) :
               directDate \in DateParse(cleanValue)}

\* s.replace(/\s/g, '')
RemoveSpaces(s) == SelectSeq(s, LAMBDA c : ~IsSpace(c))

\* s.replace(/,(?=\d{3})/g, '') from index k on
RECURSIVE RemoveThousands(_, _)
RemoveThousands(s, k) ==
  IF k > Len(s) THEN <<>>
  ELSE IF s[k] = "," /\ DigitsEnd(s, k + 1) >= k + 4
  THEN RemoveThousands(s, k + 1)
  ELSE <<s[k]>> \o RemoveThousands(s, k + 1)

\* s.replace(',', '.'): the first comma only
RECURSIVE ReplaceFirstComma(_)
ReplaceFirstComma(s) ==
  IF s = <<>> THEN <<>>
  ELSE IF Head(s) = "," THEN <<".">> \o Tail(s)
  ELSE <<Head(s)>> \o ReplaceFirstComma(Tail(s))

NaN == [n |-> 0, d |-> 0]
RECURSIVE Pow10(_)
Pow10(k) == IF k = 0 THEN 1 ELSE 10 * Pow10(k - 1)

\* Number(s) of a string of digits, signs, points, commas, letters and
\* spaces: surrounding spaces are ignored, the empty string is 0, a decimal
\* literal with an optional sign is its value, everything else is NaN
StringToNumber(str) ==
  LET s == trim(str)
      signed == s # <<>> /\ s[1] \in {"+", "-"}
      body == IF signed THEN Tail(s) ELSE s
      points == {k \in DOMAIN body : body[k] = "."}
      digits == SelectSeq(body, IsDigit)
      fraction == IF points = {} THEN 0
                  ELSE Len(body) - (CHOOSE k \in points : TRUE)
      magnitude == Q(ParseNat(digits), Pow10(fraction))
  IN IF s = <<>> THEN Q(0, 1)
     ELSE IF /\ Cardinality(points) <= 1
             /\ digits # <<>>
             /\ \A k \in DOMAIN body : IsDigit(body[k]) \/ body[k] = "."
     THEN (IF signed /\ s[1] = "-"
           THEN Q(0 - magnitude.n, magnitude.d) ELSE magnitude)
     ELSE NaN

\* Math.round(x): the integer nearest to x, halves upwards
MathRound(x) == IF x.d = 0 THEN x ELSE Q((2 * x.n + x.d) \div (2 * x.d), 1)

\* targetType.includes('INTEGER') || ... || targetType.includes('SMALLINT')
IsIntegerType(targetType) ==
  \/ includes(targetType, <<"I", "N", "T", "E", "G", "E", "R">>)
  \/ includes(targetType, <<"B", "I", "G", "I", "N", "T">>)
  \/ includes(targetType, <<"S", "M", "A", "L", "L", "I", "N", "T">>)

\* convertTextToNumber(value, targetType)
convertTextToNumber(value, targetType) ==
  IF NotText(value)
  THEN Throw(<<"Valor inválido para conversão numérica">>)
  ELSE
    LET stripped == RemoveThousands(RemoveSpaces(trim(value.s)), 1)
        cleanValue == IF includes(stripped, <<",">>)
                         /\ ~includes(stripped, <<".">>)
                      THEN ReplaceFirstComma(stripped) ELSE stripped
        numValue == StringToNumber(cleanValue)
    IN IF IsNaN(numValue)
       THEN Throw(<<"Não foi possível converter \"", value.s,
                    "\" para número">>)
       ELSE Return(Num(IF IsIntegerType(targetType) THEN MathRound(numValue)
                       ELSE numValue))

\* the digits after the decimal point of n/d, 0 <= n < d, while there are
\* any (at most limit of them)
RECURSIVE FractionDigits(_, _, _)
FractionDigits(n, d, limit) ==
  IF n = 0 \/ limit = 0 THEN <<>>
  ELSE <<Digits[((10 * n) \div d) + 1]>>
         \o FractionDigits((10 * n) % d, d, limit - 1)

\* value.toString() of a number
NumberToString(x) ==
  IF x.d = 0 THEN (IF x.n = 0 THEN <<"N", "a", "N">> ELSE <<"I", "n", "f", "i", "n", "i", "t", "y">>)
  ELSE LET a == IF x.n < 0 THEN 0 - x.n ELSE x.n
           whole == NatToString(a \div x.d, 1)
           fraction == FractionDigits(a % x.d, x.d, 17)
       IN (IF x.n < 0 THEN <<"-">> ELSE <<>>) \o whole
            \o (IF fraction = <<>> THEN <<>> ELSE <<".">> \o fraction)

\* String(value)
StringOf(value) ==
  CASE value.t = "string" -> value.s
    [] value.t = "number" -> NumberToString(value.n)
    [] value.t = "null" -> <<"n", "u", "l", "l">>
    [] value.t = "undefined" -> <<"u", "n", "d", "e", "f", "i", "n", "e", "d">>

\* Number(value)
ToNumber(value) ==
  CASE value.t = "string" -> StringToNumber(value.s)
    [] value.t = "number" -> value.n
    [] value.t = "null" -> Q(0, 1)
    [] value.t = "undefined" -> NaN

\* convertNumberToText(value)
convertNumberToText(value) ==
  IF value.t # "number" THEN StringOf(value) ELSE NumberToString(value.n)

\* convertDateToText(value) of a value that is no Date object
convertDateToText(value) == StringOf(value)

\* convertNumberToNumber(value, targetType)
convertNumberToNumber(value, targetType) ==
  IF value.t # "number" /\ IsNaN(ToNumber(value))
  THEN Throw(<<"Não foi possível converter \"", StringOf(value),
               "\" para número">>)
  ELSE LET number == ToNumber(value)
       IN Return(Num(IF IsIntegerType(targetType) THEN MathRound(number)
                     ELSE number))

\* executeConversion(value, sourceType, targetType): the possible outcomes
executeConversion(value, sourceType, targetType, tz) ==
  IF InList(textTypes, sourceType) /\ InList(dateTypes, targetType)
  THEN convertTextToDate(value, targetType, tz)
  ELSE IF InList(textTypes, sourceType) /\ InList(numberTypes, targetType)
  THEN {convertTextToNumber(value, targetType)}
  ELSE IF InList(numberTypes, sourceType) /\ InList(textTypes, targetType)
  THEN {Return(Str(convertNumberToText(value)))}
  ELSE IF InList(dateTypes, sourceType) /\ InList(textTypes, targetType)
  THEN {Return(Str(convertDateToText(value)))}
  ELSE IF InList(numberTypes, sourceType) /\ InList(numberTypes, targetType)
  THEN {convertNumberToNumber(value, targetType)}
  ELSE {Return(Str(StringOf(value)))}

\* value === null || value === undefined (line 59)
IsNullOnly(value) == value = Null
IsNullish(value) == value = Null \/ value = Undefined

\* result.value = value in the catch block (line 84)
CatchKeepsNull(value) == Null
CatchKeepsValue(value) == value

\* convert(value, sourceType, targetType): the ConversionResults it can
\* return; error is <<>> when the field is absent
convert(value, sourceType, targetType, tz) ==
  LET result == [success |-> FALSE, value |-> Null, originalValue |-> value,
                 originalType |-> sourceType, targetType |-> targetType,
                 conversionType |-> getConversionType(sourceType, targetType),
                 error |-> <<>>]
      sourceNorm == normalizeType(sourceType)
      targetNorm == normalizeType(targetType)
  IN IF IsNullish(value)
     THEN {[result EXCEPT !.success = TRUE, !.value = value]}
     ELSE IF sourceNorm = targetNorm
     THEN {[result EXCEPT !.success = TRUE, !.value = value,
                          !.conversionType = "DIRECT"]}
     ELSE {IF o.thrown
           THEN [result EXCEPT !.success = FALSE, !.error = o.message,
                               !.value = CatchKeepsValue(value)]
           ELSE [result EXCEPT !.value = o.value, !.success = TRUE] :
             o \in executeConversion(value, sourceNorm, targetNorm, tz)}

\* ------------------------------------------------------------------------
\* Part IV : DataConverter, convert applied
\* ------------------------------------------------------------------------

\* type strings: text, number and date types, with parameters and in lower
\* case, and DECIMAL
ConvTypes ==
  {<<"V", "A", "R", "C", "H", "A", "R">>, <<"v", "a", "r", "c", "h", "a", "r", "(", "5", "0", ")">>, <<"C", "H", "A", "R">>, <<"I", "N", "T", "E", "G", "E", "R">>, <<"N", "U", "M", "E", "R", "I", "C", "(", "1", "8", ",", "2", ")">>, <<"D", "E", "C", "I", "M", "A", "L">>,
   <<"D", "A", "T", "E">>, <<"T", "I", "M", "E", "S", "T", "A", "M", "P">>, <<>>}

\* values of every kind: texts that are dates in each format, dates that do
\* not exist, numbers written with separators, texts that are neither
ConvValues ==
  {Null, Undefined, Num(Q(5, 2)), Num(Q(0 - 7, 1)),
   Str(<<>>),
   Str(<<"2", "0", "2", "0", "-", "1", "2", "-", "3", "1">>), Str(<<"3", "1", "/", "1", "2", "/", "2", "0", "2", "0">>), Str(<<"3", "1", "-", "1", "2", "-", "2", "0", "2", "0">>),
   Str(<<"2", "0", "2", "0", "1", "2", "3", "1">>), Str(<<"3", "1", "1", "2", "2", "0", "2", "0">>), Str(<<"2", "0", "2", "0", "-", "0", "3", "-", "0", "1">>), Str(<<"2", "0", "2", "0", "-", "0", "1", "-", "0", "1">>),
   Str(<<"2", "9", "/", "0", "2", "/", "2", "0", "2", "0">>), Str(<<"3", "0", "/", "0", "2", "/", "2", "0", "2", "0">>), Str(<<"0", "0", "5", "0", "-", "0", "1", "-", "0", "1">>),
   Str(<<"1", ",", "2", "3", "4", ".", "5", "0">>), Str(<<"1", "2", ",", "5">>), Str(<<"a", "b", "c">>), Str(<<" ", "4", "2", " ">>)}

\* offsets of local time from UTC in hours: west of, at, and east of Greenwich
TimeZones == {0 - 3, 0, 1}

\* short texts of digits and separators, converted to a number
NumChars == {"1", "5", ",", ".", " ", "-"}
NumTexts == {Str(s) : s \in SeqsUpTo(NumChars, MaxNumLen)}
NumTargets == {<<"I", "N", "T", "E", "G", "E", "R">>, <<"N", "U", "M", "E", "R", "I", "C", "(", "1", "8", ",", "2", ")">>, <<"D", "E", "C", "I", "M", "A", "L">>}

InitConv ==
  /\ InitEngine
  /\ options = [skipErrors |-> FALSE, createIndexes |-> TRUE,
                validateData |-> TRUE, maxRetries |-> 3]
  /\ lim = [runs |-> 0, tables |-> 0, batches |-> 0, rows |-> 0,
            observe |-> FALSE]
  /\ me = MEInit
  /\ mapper = MapperInit
  /\ \/ \E v \in ConvValues : \E s \in ConvTypes : \E t \in ConvTypes :
        \E tz \in TimeZones : conv = ConvCall(v, s, t, tz)
     \/ \E v \in NumTexts : \E t \in NumTargets :
          conv = ConvCall(v, <<"V", "A", "R", "C", "H", "A", "R">>, t, 0)

\* DataConverter.convert(value, sourceType, targetType) returns
Convert ==
  /\ conv.pc = "idle"
  /\ \E result \in convert(conv.value, conv.sourceType, conv.targetType,
                           conv.tz) :
       conv' = [conv EXCEPT !.pc = "returned", !.result = result]
  /\ UNCHANGED <<imeVars, me, mapper>>

NextConv == Convert

SpecConv == InitConv /\ [][NextConv]_vars

\* ------------------------------------------------------------------------
\* Properties of IntelligentMigrationEngine
\* ------------------------------------------------------------------------

Last(h) == h[Len(h)]
Front(h) == SubSeq(h, 1, Len(h) - 1)
IsPrefix(a, b) == Len(a) <= Len(b) /\ SubSeq(b, 1, Len(a)) = a

CleanupPcs == {"discSrc", "discTgt", "settled"}
Started(r) == run[r].pc # "idle"
Settled(r) == run[r].pc = "settled"

\* the phases startMigration() walks through when nothing fails
ExpectedPhases ==
  <<"connecting", "analyzing", "creating", "migrating">>
  \o (IF options.createIndexes THEN <<"indexing">> ELSE <<>>)
  \o (IF options.validateData THEN <<"validating">> ELSE <<>>)
  \o <<"complete">>

\* C1: a startMigration() call made while isRunning is set is rejected, and
\* the rejected call issues no adapter call and leaves isRunning, shouldStop,
\* progress, statistics and the running invocation untouched.
C1_SingleFlight ==
  [][ (isRunning /\ lastCall'.op \in {"connect.source",
                                      "startMigration.rejected"})
        => /\ lastCall'.op = "startMigration.rejected"
           /\ UNCHANGED <<isRunning, shouldStop, progress, statistics, run>>
    ]_vars

C1_Witness ==
  /\ lastCall.op = "startMigration.rejected"
  /\ isRunning
  /\ \E r \in Runs : run[r].pc = "insert"

\* C2: the phases one accepted run sets are a prefix of connecting,
\* analyzing, creating, migrating, indexing (only with createIndexes),
\* validating (only with validateData), complete, optionally followed by
\* error; error never follows complete, nothing follows error, and
\* progress.phase is the phase the run set last.
C2_PhaseOrder ==
  \A r \in Runs : Started(r) =>
    LET h == gh[r].hist
        core == IF Last(h) = "error" THEN Front(h) ELSE h
    IN /\ h # <<>>
       /\ IsPrefix(core, ExpectedPhases)
       /\ (Last(h) = "error" => "complete" \notin {core[i] : i \in DOMAIN core})
       /\ \A i, j \in DOMAIN h : i < j => Rank(h[i]) < Rank(h[j])
       /\ progress.phase = Last(h)

C2_Witness ==
  \E r \in Runs : /\ gh[r].hist = ExpectedPhases
                  /\ Len(gh[r].hist) = 7
                  /\ Settled(r)

C4_RetryCount ==
  [][ \A r \in Runs :
        ( /\ run[r].pc = "insert"
          /\ run'[r].pc \in {"catch", "tableCount"}
          /\ Len(progress'.errors) > Len(progress.errors) )
        => /\ gh[r].tries = options.maxRetries + 1
           /\ gh[r].sleeps = options.maxRetries
    ]_vars

\* C5: with skipErrors = false the first createTable failure or table
\* transfer failure aborts the run: it goes to the error phase and rejects,
\* and issues no adapter call other than the disconnects of cleanup, hence
\* no createTable or insertData for a remaining table.
C5_AbortPolicy ==
  /\ [](\A r \in Runs :
          /\ (~options.skipErrors /\ gh[r].tableFails > 0) => gh[r].aborted
          /\ gh[r].aborted =>
               /\ gh[r].tableFails = 1
               /\ run[r].pc \in CleanupPcs \cup {"catch"}
               /\ run[r].pc \in CleanupPcs =>
                    /\ run[r].result = "rejected"
                    /\ Last(gh[r].hist) = "error"
                    /\ "error" \in gh[r].events)
  /\ [][ \A r \in Runs :
           (gh'[r].aborted /\ lastCall'.run = r)
             => lastCall'.op \in {"disconnect.source", "disconnect.target"}
       ]_vars

C5_Witness ==
  \E r \in Runs : /\ gh[r].aborted
                  /\ Settled(r)
                  /\ statistics.totalTables = 2
                  /\ gh[r].created = {1}

\* C6: with skipErrors = true, in a run whose connects, getSchema and
\* table-complete counts succeed, createTable and table transfer failures
\* never lead to the error phase or a rejection; each appends one message
\* to progress.errors; unless stopped, every table is still created and
\* streamed; and the run settles in phase complete.
C6_ContinuePolicy ==
  \A r \in Runs : (options.skipErrors /\ Started(r) /\ ~gh[r].otherFail) =>
    /\ run[r].pc # "catch"
    /\ run[r].result # "rejected"
    /\ ~gh[r].aborted
    /\ "error" \notin {gh[r].hist[i] : i \in DOMAIN gh[r].hist}
    /\ Len(progress.errors) = gh[r].tableFails
    /\ Settled(r) =>
         /\ Last(gh[r].hist) = "complete"
         /\ progress.phase = "complete"
         /\ run[r].result = "resolved"
         /\ ~gh[r].stopCalled =>
              /\ gh[r].created = 1..statistics.totalTables
              /\ gh[r].streamed = 1..statistics.totalTables

C6_Witness ==
  \E r \in Runs : /\ options.skipErrors
                  /\ Settled(r)
                  /\ run[r].result = "resolved"
                  /\ statistics.totalTables = 2
                  /\ progress.errors = <<<<"create", 1>>, <<"migrate", 1>>>>
                  /\ gh[r].streamed = {1, 2}

\* C7: a run during which stop() was called and in which no adapter call
\* failed settles in phase complete: it resolves with the statistics and
\* emits complete, not error.
C7_StopOutcome ==
  \A r \in Runs : (Settled(r) /\ gh[r].stopCalled /\ ~gh[r].failed) =>
    /\ Last(gh[r].hist) = "complete"
    /\ progress.phase = "complete"
    /\ run[r].result = "resolved"
    /\ gh[r].retStats
    /\ gh[r].events = {"complete"}

C7_Witness ==
  \E r \in Runs : /\ Settled(r)
                  /\ gh[r].stopCalled
                  /\ ~gh[r].failed
                  /\ statistics.totalTables = 2
                  /\ gh[r].streamed = {1}

\* C8: after stop() was called during a run, the run begins no table
\* (createTable, streamData, index query, validation query) and begins no
\* batch (first insertData attempt); retries of the batch in flight remain.
C8_StopBoundaries ==
  [][ (lastCall'.run \in Runs /\ gh[lastCall'.run].stopCalled)
        => ~lastCall'.fresh ]_vars

C8_Witness ==
  /\ lastCall.op = "insertData"
  /\ ~lastCall.fresh
  /\ gh[lastCall.run].stopCalled

\* C9: a failed source connect is not followed by a target connect, and
\* after either connect failed the run goes to the error phase and rejects,
\* whatever skipErrors is, issuing nothing but the disconnects of cleanup.
C9_ConnectFailure ==
  /\ [](\A r \in Runs : gh[r].connFailed # "none" =>
          /\ run[r].pc \in CleanupPcs \cup {"catch"}
          /\ gh[r].created = {} /\ gh[r].streamed = {}
          /\ run[r].pc \in CleanupPcs =>
               /\ run[r].result = "rejected"
               /\ gh[r].hist = <<"connecting", "error">>
               /\ progress.phase = "error")
  /\ [][ \A r \in Runs :
           (gh'[r].connFailed # "none" /\ lastCall'.run = r)
             => lastCall'.op \in {"disconnect.source", "disconnect.target"}
       ]_vars

C9_Witness ==
  \E r \in Runs : /\ options.skipErrors
                  /\ gh[r].connFailed = "source"
                  /\ Settled(r)

\* ------------------------------------------------------------------------
\* Properties of MigrationEngine
\* ------------------------------------------------------------------------

\* C10: once table:completed is emitted for a table of a job that writes,
\* it has been emitted once with rowCount R, and the insertRows calls for
\* the table are the ceil(R/B) consecutive slices of its R rows.
C10_Batching ==
  \A t \in METableSet :
    (~me.cfg.dryRun /\ me.tableCompleted[t] # <<>>) =>
      /\ me.tableCompleted[t] = <<me.cfg.rows>>
      /\ me.inserts[t] = chunkArray(StreamRows(me.cfg), me.cfg.batchSize)

\* C11: migration:started is the first thing a job emits; afterwards
\* migration:completed and migration:failed are emitted at most once in
\* total, a settled job has emitted exactly one of them, and every started
\* job settles, whichever adapter call fails.
C11_TerminalEvent ==
  /\ [](/\ me.pc = "idle" => \A e \in DOMAIN me.ev : me.ev[e] = 0
        /\ me.pc # "idle" => me.ev.started = 1
        /\ me.ev.completed + me.ev.failed <= 1
        /\ me.pc = "done" => me.ev.completed + me.ev.failed = 1)
  /\ ((me.ev.started = 1) ~> (me.pc = "done"))

C11_Witness ==
  /\ me.pc = "done"
  /\ me.ev.failed = 1
  /\ me.ev.completed = 0
  /\ \E t \in METableSet : me.tableFailed[t] = 1

\* C12: when the connect of the target adapter fails, disconnect is invoked
\* on the source adapter, no createTable and no insertRows call is issued,
\* and the job settles with migration:failed and without
\* migration:completed.
C12_UnreachableTarget ==
  me.failedAt = "connect.target" =>
    /\ "source" \in me.disc
    /\ \A t \in METableSet : me.creates[t] = 0 /\ me.inserts[t] = <<>>
    /\ me.call.op \notin {"createTable", "insertRows"}
    /\ me.ev.completed = 0
    /\ me.pc = "done" => me.ev.failed = 1 /\ me.status = "failed"

C12_Witness ==
  /\ me.failedAt = "connect.target"
  /\ me.pc = "done"
  /\ me.ev.failed = 1
  /\ me.disc = {"source", "target"}
  /\ me.cfg.n > 0 /\ ~me.cfg.dryRun

\* C13: in a job started with dryRun = true neither createTable nor
\* insertRows is ever invoked on the target adapter.
C13_DryRunNoWrites ==
  me.cfg.dryRun =>
    /\ \A t \in METableSet : me.creates[t] = 0 /\ me.inserts[t] = <<>>
    /\ \A t \in METableSet : me.pending[t] = 0
    /\ me.call.op \notin {"createTable", "insertRows"}

C13_Witness ==
  /\ me.cfg.dryRun
  /\ me.pc = "done"
  /\ me.ev.completed = 1
  /\ me.cfg.n = 1 /\ me.cfg.rows = 3 /\ me.cfg.batchSize = 2
  /\ me.delivered[1] = 3
  /\ me.processedRows = 2

\* C14: a dry-run job whose adapter reads succeed ends with
\* progress.processedRows equal to the number of source rows of the migrated
\* tables: once the job has completed and every stream has delivered all its
\* rows nothing changes any more, so the counter has that value then.
C14_DryRunCounters ==
  ( /\ me.cfg.dryRun
    /\ me.pc = "done" /\ me.ev.completed = 1
    /\ \A t \in 1..me.cfg.n : me.delivered[t] = me.cfg.rows )
  => me.processedRows = me.cfg.n * me.cfg.rows

RECURSIVE Flatten(_)
Flatten(qq) == IF qq = <<>> THEN <<>> ELSE Head(qq) \o Flatten(Tail(qq))

MEPendingTasks == {t \in METableSet : me.task[t] \notin {"none", "done", "failed"}}

\* C16: with parallelTables = N > 1 the tables are split into consecutive
\* chunks of N (none empty, only the last shorter, their concatenation is
\* the table list); no migrateTable of chunk k+1 is started before every
\* migrateTable of chunk k has returned, so at most N are pending; and after
\* a migrateTable of a chunk failed no table of a later chunk is started.
C16_ChunkedParallelism ==
  LET N == me.cfg.parallelTables
      chunks == chunkArray(TablesToMigrate(me.cfg), N)
  IN N > 1 =>
       /\ Flatten(chunks) = TablesToMigrate(me.cfg)
       /\ \A k \in DOMAIN chunks :
            /\ Len(chunks[k]) \in 1..N
            /\ k < Len(chunks) => Len(chunks[k]) = N
       /\ \A k \in DOMAIN chunks : \A j \in DOMAIN chunks : k < j =>
            \A u \in SeqSet(chunks[k]) : \A t \in SeqSet(chunks[j]) :
              /\ me.tableStarted[t] > 0 => me.task[u] = "done"
              /\ me.task[u] = "failed" => me.tableStarted[t] = 0
       /\ Cardinality(MEPendingTasks) <= N
       /\ \A t \in METableSet : me.tableStarted[t] <= 1

C16_Witness ==
  /\ me.cfg.parallelTables = 2
  /\ me.cfg.n = 3
  /\ me.task[1] = "done" /\ me.task[2] = "done"
  /\ me.task[3] = "tableInfo"
  /\ me.chunk = 2

\* ------------------------------------------------------------------------
\* Properties of IntelligentMappingEngine
\* ------------------------------------------------------------------------

\* the table similarity of the pair of tables a mapping is for
MappingPairSimilarity(x) ==
  calculateTableSimilarity(FindTable(mapper.sourceSchema, x.sourceTable, 1),
                           FindTable(mapper.targetSchema, x.targetTable, 1))

\* C17: analyzing CUSTOMERS (ID INTEGER, NAME VARCHAR(50)) against clientes
\* (id INTEGER, nome VARCHAR(60)) with the default threshold leaves exactly
\* one automatic TableMapping, with the two column mappings ID to id and
\* NAME to nome, both autoDetected.
C17_CustomersScenario ==
  ( /\ mapper.pc = "completed"
    /\ mapper.source = CustomersSchema /\ mapper.target = ClientesSchema
    /\ mapper.config = MapperDefaults )
  => /\ Cardinality(mapper.tableMappings) = 1
     /\ \A x \in mapper.tableMappings :
          /\ x.sourceTable = CustomersSchema[1].name
          /\ x.targetTable = ClientesSchema[1].name
          /\ Len(x.columnMappings) = 2
          /\ x.columnMappings[1].sourceColumn = <<"I", "D">>
          /\ x.columnMappings[1].targetColumn = <<"i", "d">>
          /\ x.columnMappings[2].sourceColumn = <<"N", "A", "M", "E">>
          /\ x.columnMappings[2].targetColumn = <<"n", "o", "m", "e">>
          /\ \A k \in 1..2 : x.columnMappings[k].autoDetected

\* C18: every TableMapping analyzeSchemas has created is for a pair of a
\* source and a target table whose table similarity is at least
\* similarityThreshold.
C18_AutoMapThreshold ==
  \A x \in mapper.tableMappings :
    /\ FindTable(mapper.sourceSchema, x.sourceTable, 1) # <<>>
    /\ FindTable(mapper.targetSchema, x.targetTable, 1) # <<>>
    /\ QGe(MappingPairSimilarity(x), mapper.config.similarityThreshold)

C18_Witness ==
  /\ mapper.pc = "completed"
  /\ mapper.config.similarityThreshold = Q(7, 10)
  /\ Cardinality(mapper.tableMappings) = 1
  /\ \E k \in DOMAIN mapper.suggestions :
       /\ ~QGe(mapper.suggestions[k].confidence, Q(7, 10))
       /\ \A j \in DOMAIN mapper.suggestions :
            mapper.suggestions[j].sourceItem = mapper.suggestions[k].sourceItem
              => j = k

\* C21: calculateTypeSimilarity returns 1 when the two type strings are
\* identical after normalization (upper-casing and stripping the
\* parenthesized parameters), 0.8 when the normalized base types are two
\* different members of one compatibility group, and 0 otherwise.
C21_TypeSimilarity ==
  (mapper.pc = "returned" /\ mapper.input[1] = "types") =>
    LET Base(t) ==
          LET u == toUpperCase(t)
              cut == {k \in DOMAIN u : u[k] = "("}
          IN IF cut = {} THEN u
             ELSE SubSeq(u, 1, (CHOOSE k \in cut : \A j \in cut : k <= j) - 1)
        n1 == Base(mapper.input[2])
        n2 == Base(mapper.input[3])
        sameGroup ==
          \E g \in DOMAIN typeGroups :
            /\ \E k \in DOMAIN typeGroups[g] : typeGroups[g][k] = n1
            /\ \E k \in DOMAIN typeGroups[g] : typeGroups[g][k] = n2
    IN mapper.output[1] =
         IF n1 = n2 THEN Q(1, 1) ELSE IF sameGroup THEN Q(8, 10) ELSE Q(0, 1)

\* C19: for every pair of tables, also tables without columns,
\* calculateTableSimilarity returns a number (not NaN) between 0 and 1.
C19_TableSimilarityRange ==
  (mapper.pc = "returned" /\ mapper.input[1] = "tables") =>
    /\ ~IsNaN(mapper.output[1])
    /\ QGe(mapper.output[1], Q(0, 1))
    /\ QGe(Q(1, 1), mapper.output[1])

\* C20: calculateStringSimilarity(a, b) = calculateStringSimilarity(b, a)
\* for all strings a and b, whatever their case and surrounding whitespace.
C20_StringSymmetry ==
  (mapper.pc = "returned" /\ mapper.input[1] = "strings") =>
    mapper.output[1] = mapper.output[2]

C20_Witness ==
  /\ mapper.pc = "returned"
  /\ mapper.input = <<"strings", <<" ", "A", "a">>, <<"a", "b">>>>
  /\ mapper.output = <<Q(1, 2), Q(1, 2)>>

\* ------------------------------------------------------------------------
\* Properties of the web server
\* ------------------------------------------------------------------------

\* C15: the run launched by POST /api/migrate with options.dryRun = true
\* issues no write to the target adapter: no createTable, no insertData and
\* no index creation.
C15_WebDryRun ==
  WebDryRun => lastCall.op \notin {"createTable", "insertData", "query.index"}

\* ------------------------------------------------------------------------
\* Properties of DataConverter
\* ------------------------------------------------------------------------

\* C22: convert("1,234.50", sourceType, "DECIMAL") with a text source type
\* dispatches to the text-to-number conversion: it has success = true and
\* the value is the number 1234.5.
C22_TextToDecimal ==
  ( /\ conv.pc = "returned"
    /\ conv.value = Str(<<"1", ",", "2", "3", "4", ".", "5", "0">>)
    /\ InList(textTypes, normalizeType(conv.sourceType))
    /\ normalizeType(conv.targetType) = <<"D", "E", "C", "I", "M", "A", "L">> )
  => /\ conv.result.success
     /\ conv.result.value = Num(Q(2469, 2))

\* C27: convert(null, s, t) and convert(undefined, s, t) return, for every
\* pair of type strings, success = true and the value they were given.
C27_NullPassThrough ==
  (conv.pc = "returned" /\ conv.value \in {Null, Undefined}) =>
    /\ conv.result.success
    /\ conv.result.value = conv.value
    /\ conv.result.error = <<>>

C27_Witness ==
  /\ conv.pc = "returned"
  /\ conv.value = Undefined
  /\ conv.sourceType = <<"V", "A", "R", "C", "H", "A", "R">>
  /\ conv.targetType = <<"D", "A", "T", "E">>
  /\ conv.result.success
  /\ conv.result.value = Undefined

\* C28: convert returns a result whatever the conversion step does; when
\* that step fails, the result has success = false, an error message, and
\* the original input as its value.
C28_FailureResult ==
  conv.pc = "returned" =>
    LET stepFails ==
          /\ conv.value \notin {Null, Undefined}
          /\ normalizeType(conv.sourceType) # normalizeType(conv.targetType)
          /\ \A o \in executeConversion(conv.value,
                        normalizeType(conv.sourceType),
                        normalizeType(conv.targetType), conv.tz) : o.thrown
    IN /\ stepFails => ~conv.result.success
       /\ ~conv.result.success =>
            /\ conv.result.error # <<>>
            /\ conv.result.value = conv.value
            /\ conv.result.originalValue = conv.value

C28_Witness ==
  /\ conv.pc = "returned"
  /\ conv.value = Str(<<"a", "b", "c">>)
  /\ conv.result.conversionType \in {"TEXT_TO_DATE", "TEXT_TO_NUMBER"}
  /\ ~conv.result.success
  /\ conv.result.value = Str(<<"a", "b", "c">>)

\* C29: a text that denotes a valid calendar date in one of the formats
\* YYYY-MM-DD, DD/MM/YYYY, DD-MM-YYYY, YYYYMMDD, DDMMYYYY (tried in that
\* order) converts to DATE successfully, and the value is that same calendar
\* date written as YYYY-MM-DD.
C29_TextToDate ==
  LET s == trim(conv.value.s)
      denotes(k) ==
        /\ MatchesFormat(s, dateFormats[k])
        /\ LET ymd == MatchedDate(s, dateFormats[k])
           IN /\ ymd[1] >= 1
              /\ ymd[2] \in 1..12
              /\ ymd[3] \in 1..DaysInMonth(ymd[1], ymd[2])
      formats == {k \in DOMAIN dateFormats : denotes(k)}
      first == CHOOSE k \in formats : \A j \in formats : k <= j
      ymd == MatchedDate(s, dateFormats[first])
  IN ( /\ conv.pc = "returned"
       /\ conv.value.t = "string"
       /\ InList(textTypes, normalizeType(conv.sourceType))
       /\ normalizeType(conv.targetType) = <<"D", "A", "T", "E">>
       /\ formats # {} )
     => /\ conv.result.success
        /\ conv.result.value =
             Str(NatToString(ymd[1], 4) \o <<"-">> \o NatToString(ymd[2], 2)
                   \o <<"-">> \o NatToString(ymd[3], 2))

\* ------------------------------------------------------------------------
\* Properties of the mapping repository
\* ------------------------------------------------------------------------

\* C23: after importMappingConfig(exportMappingConfig()), into the same or a
\* fresh engine, the repository holds exactly the TableMapping ids it held
\* before the export, each with the same column mappings.
C23_ExportImportRoundTrip ==
  (mapper.pc = "returned" /\ mapper.output.op = "importMappingConfig") =>
    /\ {x.id : x \in mapper.tableMappings}
         = {x.id : x \in mapper.output.before}
    /\ \A b \in mapper.output.before : \E a \in mapper.tableMappings :
         a.id = b.id /\ a.columnMappings = b.columnMappings
    /\ \A a \in mapper.tableMappings : \E b \in mapper.output.before :
         a.id = b.id /\ a.columnMappings = b.columnMappings

\* C24: right after a successful createTableMapping, createManyToOneMapping
\* or createOneToManyMapping on the analyzed schemas, validateMappings()
\* reports no error for a mapping the operation created: its source and
\* target tables and the columns of its column mappings are found.
C24_CreatedMappingValid ==
  ( /\ mapper.pc = "completed"
    /\ mapper.output # <<>>
    /\ mapper.output.op \in {"createTableMapping", "createManyToOneMapping",
                             "createOneToManyMapping"}
    /\ ~mapper.output.threw )
  => \A e \in validateMappings(mapper) : e.key \notin mapper.output.result

\* C25: createManyToOneMapping with fewer than 2 source tables and
\* createOneToManyMapping with fewer than 2 target tables fail, and a create
\* operation that fails leaves the stored TableMappings as they were.
C25_CardinalityValidation ==
  ( /\ mapper.pc = "completed"
    /\ mapper.output # <<>>
    /\ mapper.output.op \in {"createTableMapping", "createManyToOneMapping",
                             "createOneToManyMapping"} )
  => /\ ( /\ mapper.output.op = "createManyToOneMapping"
          /\ Len(mapper.input[1]) < 2 ) => mapper.output.threw
     /\ ( /\ mapper.output.op = "createOneToManyMapping"
          /\ Len(mapper.input[2]) < 2 ) => mapper.output.threw
     /\ mapper.output.threw => mapper.tableMappings = mapper.output.before

C25_Witness ==
  /\ mapper.pc = "completed"
  /\ mapper.output # <<>>
  /\ mapper.output.op = "createManyToOneMapping"
  /\ Len(mapper.input[1]) = 1
  /\ mapper.output.threw
  /\ mapper.output.before # {}
  /\ mapper.tableMappings = mapper.output.before

\* C26: generateFirebirdDDL emits exactly one CREATE TABLE statement for
\* each target table that some enabled mapping references, and none for a
\* target table that only disabled mappings reference.
C26_DdlScope ==
  (mapper.pc = "returned" /\ mapper.output.op = "generateFirebirdDDL") =>
    \A t \in {x.targetTable : x \in mapper.tableMappings} :
      Cardinality({k \in DOMAIN mapper.output.result :
                     /\ mapper.output.result[k].statement = "CREATE TABLE"
                     /\ mapper.output.result[k].table = t})
        = IF \E x \in mapper.tableMappings : x.targetTable = t /\ x.enabled
          THEN 1 ELSE 0

\* ------------------------------------------------------------------------
\* Properties of IntelligentMigrationEngine: skipped tables
\* ------------------------------------------------------------------------

\* C30: with skipErrors = true, no streamData and no insertData call is
\* issued for a table whose createTable failed in the creating phase.
C30_SkipFailedTable ==
  options.skipErrors =>
    ~( /\ lastCall.op \in {"streamData", "insertData"}
       /\ \E k \in DOMAIN progress.errors :
            progress.errors[k] = <<"create", lastCall.table>> )

\* ------------------------------------------------------------------------
\* Properties of IntelligentMigrationEngine: error bookkeeping and re-runs
\* ------------------------------------------------------------------------

\* C31: when a run has ended (phase complete or error), the tables listed in
\* statistics.problematicTables are exactly the tables for which an error was
\* recorded in progress.errors, whether createTable failed or the transfer
\* of the data failed.
C31_ProblematicTables ==
  progress.phase \in {"complete", "error"} =>
    {statistics.problematicTables[k] : k \in DOMAIN statistics.problematicTables}
      = {progress.errors[k][2] : k \in DOMAIN progress.errors}

\* ------------------------------------------------------------------------
\* Properties of MigrationEngine: targets, progress events, stop, cleanup
\* ------------------------------------------------------------------------

\* a migrateTable(t) call that has started and has not returned or thrown
MEActive(t) == me.task[t] \notin {"none", "done", "failed"}

\* C32: within one job createTable is issued at most once per target table
\* name, and two tables whose migrateTable calls are in progress at the same
\* time never both write (createTable, insertRows) to the same target table,
\* whatever config.mapping.tables says.
C32_DisjointTargets ==
  \A t, u \in METableSet :
    ( /\ t # u
      /\ targetTableName(me.cfg, t) = targetTableName(me.cfg, u) )
    => /\ ~(me.creates[t] > 0 /\ me.creates[u] > 0)
       /\ ~( /\ MEActive(t) /\ MEActive(u)
             /\ me.creates[t] > 0 \/ me.inserts[t] # <<>>
             /\ me.creates[u] > 0 \/ me.inserts[u] # <<>> )

\* C33: every step in which a batch of rows is processed for the job
\* (status.progress.processedRows grows), the final partial batch of a table
\* included, emits a migration:progress event for the job.
C33_ProgressPerBatch ==
  [][ me'.processedRows > me.processedRows
        => me'.ev.migrationProgress > me.ev.migrationProgress ]_vars

\* C34: once stopMigration(jobId) has been called on the running job, no
\* migrateTable call is started for a further table and no further
\* insertRows call is issued.
C34_CooperativeStop ==
  [][ me.ev.stopped > 0
        => \A t \in METableSet :
             /\ me'.tableStarted[t] = me.tableStarted[t]
             /\ Len(me'.inserts[t]) = Len(me.inserts[t]) ]_vars

\* C38: once the job has disconnected the adapters and has emitted
\* migration:completed or migration:failed, no adapter call is issued for
\* the job and its progress counters do not change.
C38_NoWorkAfterCleanup ==
  [][ me.pc = "done"
        => /\ me'.call = MENoCall
           /\ me'.processedRows = me.processedRows
           /\ me'.errorCount = me.errorCount ]_vars

\* C35: every accepted startMigration() call begins with fresh progress and
\* statistics: the counters are 0 and the error lists are empty, also when
\* the instance has already finished an earlier run.
C35_FreshProgress ==
  [][ (\E r \in Runs : run[r].pc = "idle" /\ run'[r].pc = "connSrc")
        => /\ progress' = initializeProgress
           /\ statistics' = initializeStatistics ]_vars

\* C36: whatever options.maxRetries is, progress.recordsProcessed and
\* statistics.recordsProcessed grow only in the step in which the awaited
\* insertData call for the batch has succeeded.
C36_CountedWasInserted ==
  [][ ( \/ progress'.recordsProcessed > progress.recordsProcessed
        \/ statistics'.recordsProcessed > statistics.recordsProcessed )
        => \E r \in Runs : run[r].pc = "insert" /\ run'[r].pc = "next"
    ]_vars

\* C37: a startMigration() call is accepted only when no earlier run of the
\* instance is still between its connect and the end of its cleanup: the
\* disconnects of one run never overlap a later accepted run.
C37_CleanupBeforeRerun ==
  [][ \A r \in Runs :
        (run[r].pc = "idle" /\ run'[r].pc = "connSrc")
        => \A q \in Runs \ {r} : run[q].pc \in {"idle", "settled"} ]_vars

\* C39: if every adapter call eventually returns or fails and every stream
\* is finite, every accepted startMigration() run eventually settles; no
\* batch is attempted more than maxRetries times; and once the accepted runs
\* have settled the phase is complete or error and isRunning is false, so
\* that the next startMigration() call is accepted.
C39_Termination ==
  /\ \A r \in Runs : Started(r) ~> Settled(r)
  /\ [](\A r \in Runs : run[r].att <= options.maxRetries)
  /\ []( ( /\ \E r \in Runs : Settled(r)
           /\ \A r \in Runs : run[r].pc \in {"idle", "settled"} )
         => /\ progress.phase \in {"complete", "error"}
            /\ ~isRunning
            /\ ~AlreadyRunning )

C39_Witness ==
  /\ \A r \in Runs : Settled(r)
  /\ ~isRunning
  /\ progress.phase = "complete"
  /\ statistics.tablesProcessed = 2
  /\ statistics.recordsProcessed = 2

\* C40: a successful createTableMapping, createManyToOneMapping or
\* createOneToManyMapping leaves in the repository every TableMapping that
\* was stored for another combination of source table(s), target table and
\* mapping kind than those of the mappings it created.
C40_IdsDoNotCollide ==
  ( /\ mapper.pc = "completed"
    /\ mapper.output # <<>>
    /\ mapper.output.op \in {"createTableMapping", "createManyToOneMapping",
                             "createOneToManyMapping"}
    /\ ~mapper.output.threw )
  => \A b \in mapper.output.before :
       (\A a \in mapper.tableMappings :
          a.key \in mapper.output.result
            => <<a.sourceTable, a.targetTable, a.mappingType>>
                 # <<b.sourceTable, b.targetTable, b.mappingType>>)
       => b \in mapper.tableMappings

====
